---- MODULE Spec2Model ----
(***************************************************************************)
(* Mini wallet: the transfer engine (TransferService::transfer), the store *)
(* it talks to (users, transactions, balance_snapshots, transaction_outbox *)
(* and the row locks of the relational store), and the commission          *)
(* arithmetic, which the code does in IEEE-754 double precision.           *)
(***************************************************************************)
EXTENDS Integers, Naturals, Sequences, FiniteSets, TLC

(***************************************************************************)
(* Arbitrary-size naturals.  PHP integers are 64 bit and PHP floats are    *)
(* IEEE doubles with a 53 bit significand; the model's own integers are    *)
(* narrower, so a natural is a little-endian sequence of limbs below       *)
(* LimbBase, without leading zero limbs (<<>> is 0).                       *)
(***************************************************************************)
LimbBits == 12

LimbBase == 2 ^ LimbBits

RECURSIVE BNorm(_)
BNorm(s) ==
    IF s = <<>> THEN <<>>
    ELSE IF s[Len(s)] = 0 THEN BNorm(SubSeq(s, 1, Len(s) - 1))
    ELSE s

RECURSIVE BFromNat(_)
BFromNat(n) ==
    IF n = 0 THEN <<>> ELSE <<n % LimbBase>> \o BFromNat(n \div LimbBase)

RECURSIVE BToNat(_)
BToNat(s) ==
    IF s = <<>> THEN 0 ELSE s[1] + LimbBase * BToNat(Tail(s))

BLimb(x, i) == IF i \in 1..Len(x) THEN x[i] ELSE 0

RECURSIVE BCarry(_, _)
BCarry(cols, carry) ==
    IF cols = <<>> THEN BFromNat(carry)
    ELSE LET v == cols[1] + carry
         IN  <<v % LimbBase>> \o BCarry(Tail(cols), v \div LimbBase)

BAdd(x, y) ==
    LET n == IF Len(x) > Len(y) THEN Len(x) ELSE Len(y)
    IN  BNorm(BCarry([i \in 1..n |-> BLimb(x, i) + BLimb(y, i)], 0))

BInc(x) == BAdd(x, <<1>>)

BMulSmall(x, k) == BNorm(BCarry([i \in 1..Len(x) |-> x[i] * k], 0))

RECURSIVE BColumn(_, _, _, _)
BColumn(x, y, k, i) ==
    IF i > Len(x) THEN 0
    ELSE BLimb(x, i) * BLimb(y, k - i + 1) + BColumn(x, y, k, i + 1)

BMul(x, y) ==
    IF x = <<>> \/ y = <<>> THEN <<>>
    ELSE BNorm(BCarry([k \in 1..(Len(x) + Len(y) - 1) |-> BColumn(x, y, k, 1)], 0))

\* Long division by a divisor below LimbBase: [q |-> quotient limbs, r |-> remainder].
RECURSIVE BDivStep(_, _)
BDivStep(x, d) ==
    IF x = <<>> THEN [q |-> <<>>, r |-> 0]
    ELSE LET hi  == BDivStep(Tail(x), d)
             cur == hi.r * LimbBase + x[1]
         IN  [q |-> <<cur \div d>> \o hi.q, r |-> cur % d]

BDivMod(x, d) ==
    LET s == BDivStep(x, d) IN [q |-> BNorm(s.q), r |-> s.r]

RECURSIVE NatBitLen(_)
NatBitLen(n) == IF n = 0 THEN 0 ELSE 1 + NatBitLen(n \div 2)

BBitLen(x) ==
    IF x = <<>> THEN 0 ELSE LimbBits * (Len(x) - 1) + NatBitLen(x[Len(x)])

BShiftLeft(x, s) ==
    IF x = <<>> THEN <<>>
    ELSE [i \in 1..(s \div LimbBits) |-> 0] \o BMulSmall(x, 2 ^ (s % LimbBits))

BShiftRight(x, s) ==
    IF s \div LimbBits >= Len(x) THEN <<>>
    ELSE BDivMod(SubSeq(x, (s \div LimbBits) + 1, Len(x)), 2 ^ (s % LimbBits)).q

\* x mod 2^s = 0
BLowBitsZero(x, s) ==
    /\ \A i \in 1..Len(x) : i <= s \div LimbBits => x[i] = 0
    /\ BLimb(x, (s \div LimbBits) + 1) % (2 ^ (s % LimbBits)) = 0

BOdd(x) == x # <<>> /\ x[1] % 2 = 1

\* x / 2^s rounded to the nearest integer, ties to the even one (s >= 1).
RoundHalfEven(x, s) ==
    LET q      == BShiftRight(x, s)
        half   == BOdd(BShiftRight(x, s - 1))
        sticky == ~BLowBitsZero(x, s - 1)
    IN  IF half /\ (sticky \/ BOdd(q)) THEN BInc(q) ELSE q

(***************************************************************************)
(* IEEE-754 doubles with round-to-nearest-even: [m, e] is m * 2^e with     *)
(* m < 2^SignificandBits.  Exponent overflow and subnormals do not occur   *)
(* for the magnitudes handled here.                                        *)
(***************************************************************************)
SignificandBits == 53

ToDouble(n, e) ==
    LET len == BBitLen(n)
    IN  IF len <= SignificandBits THEN [m |-> n, e |-> e]
        ELSE LET s == len - SignificandBits
                 r == RoundHalfEven(n, s)
             IN  IF BBitLen(r) > SignificandBits
                 THEN [m |-> BShiftRight(r, 1), e |-> e + s + 1]
                 ELSE [m |-> r, e |-> e + s]

\* The double nearest to num / den (a decimal literal), num and den small.
DoubleOfRatio(num, den) ==
    LET k0 == SignificandBits + NatBitLen(den) - NatBitLen(num)
        w(k) == BDivMod(BShiftLeft(BFromNat(num), k), den)
        k  == IF BBitLen(w(k0).q) > SignificandBits THEN k0 - 1 ELSE k0
        d  == w(k)
        up == 2 * d.r > den \/ (2 * d.r = den /\ BOdd(d.q))
    IN  ToDouble(IF up THEN BInc(d.q) ELSE d.q, 0 - k)

IntToFloat(n) == ToDouble(n, 0)

FloatMul(x, y) == ToDouble(BMul(x.m, y.m), x.e + y.e)

FloatCeil(x) ==
    IF x.e >= 0 THEN x
    ELSE LET q == BShiftRight(x.m, 0 - x.e)
         IN  [m |-> IF BLowBitsZero(x.m, 0 - x.e) THEN q ELSE BInc(q), e |-> 0]

\* (int) cast of a float: truncation toward zero.
IntOfFloat(x) ==
    IF x.e >= 0 THEN BShiftLeft(x.m, x.e) ELSE BShiftRight(x.m, 0 - x.e)

\* private const COMMISSION_RATE = 0.015
COMMISSION_RATE == DoubleOfRatio(15, 1000)

\* (int) ceil($amount * self::COMMISSION_RATE), on limb naturals
CommissionBig(amount) ==
    IntOfFloat(FloatCeil(FloatMul(IntToFloat(amount), COMMISSION_RATE)))

\* ceil(amount * 3 / 200) in exact integer arithmetic (the commission law).
ExactCommissionBig(amount) ==
    LET d == BDivMod(BMulSmall(amount, 3), 200)
    IN  IF d.r = 0 THEN d.q ELSE BInc(d.q)


(***************************************************************************)
(* The store and the callers of TransferService::transfer.                 *)
(***************************************************************************)
NumProcs == 2

MaxCalls == 2

MAX_RETRIES == 3

Procs == 1..NumProcs

\* What the store locks for a locking read.  "rows": the rows the read
\* returns, and nothing when it returns none (the row-locking store the
\* design asks for at least).  "gaps": also the gap of the index in which a
\* missing key lies, until the store transaction ends (MySQL 8.0 with InnoDB
\* at its default isolation level, the database the README names); an insert
\* into a gap waits for the gap locks other store transactions hold on it,
\* and a locking read waits for an uncommitted row of its key.
StoreLocking == {"rows", "gaps"}

\* users rows present in the store at the start; id 3 is an id without a row
\* until it is registered.
ExistingUsers == {1, 2}

MaxUsers == 3

\* private const INITIAL_BALANCE = 0
INITIAL_BALANCE == 0

\* (sender_id, receiver_id, amount, idempotency_key) of the calls made.
TransferInputs ==
    {<<<<1, 2>>, 100, "k1">>, <<<<1, 2>>, 1, "k1">>, <<<<1, 2>>, 1, "k2">>,
     <<<<2, 1>>, 100, "k2">>,
     <<<<1, 3>>, 1, "k1">>, <<<<1, 1>>, 1, "k1">>, <<<<1, 2>>, 0, "k1">>,
     <<<<1, 2>>, 1, "">>}

VARIABLES
    users,              \* users table: id -> [balance, initial_balance]
    transactions,       \* committed rows of the transactions table, in commit order
    balance_snapshots,  \* committed rows of balance_snapshots
    transaction_outbox, \* committed rows of transaction_outbox
    jobs,               \* ProcessTransactionOutbox jobs on the 'events' queue
    locks,              \* users row locks: id -> holding caller, 0 when free
    proc,               \* per caller: the running transfer call and its open store transaction
    returned,           \* history: the calls that returned, in order of return
    pre_balances,       \* history: per committed transfer, both balances just before its commit
    calcAmount,         \* transfer arithmetic at full width: amount (limbs)
    calcBalance,        \* transfer arithmetic at full width: sender balance (limbs)
    calcResult,         \* transfer arithmetic at full width: its result
    worker,             \* per queue worker process: the job execution it runs
    job_attempts,       \* queue: outbox id -> times its job was handed to a worker
    failed_jobs,        \* queue: the jobs that failed for good (table failed_jobs)
    broadcasts,         \* queue: BroadcastEvent jobs of dispatched MoneyReceived events
    emitted,            \* the events a worker sent, by dispatch or by trigger
    pushed,             \* history: the events published on the push sink, in order
    variant,            \* which ProcessTransactionOutbox::handle the build contains
    sink,               \* whether the push sink (Pusher) can be reached: "up" or "down"
    responses,          \* history: the JSON responses of POST /api/transactions, in order
    clock,              \* now(), in whole seconds
    session,            \* the open client session of one user: its store
    request,            \* per request process: where its POST /api/transactions is
    stats,              \* the running GET /api/transactions/stats request
    locking             \* what a locking read of the store locks: "rows" or "gaps"

vars == <<users, transactions, balance_snapshots, transaction_outbox, jobs, locks,
          proc, returned, pre_balances, calcAmount, calcBalance, calcResult,
          worker, job_attempts, failed_jobs, broadcasts, emitted, pushed, variant,
          sink, responses, clock, session, request, stats, locking>>

workerVars ==
    <<worker, job_attempts, failed_jobs, broadcasts, emitted, pushed, variant>>

edgeVars == <<sink, responses, clock, session, request, stats, locking>>

storeVars == <<users, transactions, balance_snapshots, transaction_outbox>>

calcVars == <<calcAmount, calcBalance, calcResult>>

\* the callers of authStore.logout(), and router.push('/') of handleLogout
LogoutCallers == {"fetchUser", "handleLogout", "push"}

\* no call of logout() is awaiting its request
NoLogout == [caller \in LogoutCallers |-> 0]

\* no client session is open: the auth store holds no token (token: the id of
\* the user the token was issued to, 0 for none) and no user, localStorage
\* holds no user, no navigation is on its way (to), no layout is mounted and
\* no request is on its way
ClosedSession ==
    [user_id |-> 0, balance |-> 0, token |-> 0, stored |-> <<>>, to |-> "",
     layout |-> FALSE, channel |-> 0, connected |-> FALSE, handled |-> 0,
     missed |-> 0, calls |-> 0, pending |-> <<>>, login |-> <<>>,
     logout |-> NoLogout, seen |-> 0]

\* no POST /api/transactions is past its call of transfer
IdleRequest == [pc |-> "idle", sender_balance |-> 0]

\* no GET /api/transactions/stats is running
IdleStats == [pc |-> "idle", user_id |-> 0, results |-> <<>>, ledger |-> 0]

\* Supervisor runs 2 queue worker processes
NumWorkers == 2

Workers == 1..NumWorkers

IdleWorker ==
    [pc |-> "idle", outbox_id |-> 0, outbox |-> <<>>, payload |-> <<>>,
     exception |-> ""]

IdleProc ==
    [pc |-> "idle", caller |-> 0, sender_id |-> 0, receiver_id |-> 0, amount |-> 0,
     key |-> "", transaction |-> 0,
     commission |-> 0, total_debited |-> 0, attempt_count |-> 0, after |-> 0,
     last_exception |-> "", slept |-> <<>>,
     gap |-> <<>>,
     to_lock |-> <<>>, w_users |-> <<>>, w_txn |-> <<>>, w_snaps |-> <<>>,
     w_outbox |-> <<>>, w_jobs |-> <<>>]

\* $commission = (int) ceil($amount * self::COMMISSION_RATE)
Commission(amount) == BToNat(CommissionBig(BFromNat(amount)))

\* $total_debited = $amount + $commission
TotalDebited(amount) == amount + Commission(amount)

\* the self-transfer check left out
validateAmountOnly(sender_id, receiver_id, amount) ==
    IF amount <= 0 THEN "invalid_amount" ELSE "ok"

\* validateTransferInputs: the exception it throws, "ok" when it throws none
validateTransferInputs(sender_id, receiver_id, amount) ==
    IF sender_id = receiver_id THEN "self_transfer"
    ELSE IF amount <= 0 THEN "invalid_amount"
    ELSE "ok"

\* only the SQLSTATE recognised, not the driver's error number
isDeadlockSqlStateOnly(code) == code = "40001"

\* isDeadlock: in_array($e->getCode(), ['40001', '1213'])
isDeadlock(code) == code \in {"40001", "1213"}

\* sort($lock_order): the ids the lock statement asks for, in ascending order
LockOrder(sender_id, receiver_id) ==
    LET lo == IF sender_id < receiver_id THEN sender_id ELSE receiver_id
        hi == IF sender_id < receiver_id THEN receiver_id ELSE sender_id
    IN  <<lo, hi>>

\* the lookup skipped: no row is ever found
NoExistingTransaction(key) == <<>>

\* Transaction::where('idempotency_key', $key)->lockForUpdate()->first()
ExistingTransaction(key) ==
    SelectSeq(transactions, LAMBDA t : t.idempotency_key = key)

\* the idempotency keys of the calls made with an Idempotency-Key, in the
\* order of the unique index
HeaderKeys == <<"k1", "k2", "k3", "k4", "k5", "k6", "k7">>

\* The place of a key in the order of the unique index: the empty key first,
\* then the generated keys (hexadecimal digests, whose order among themselves
\* is not modelled), then the keys of HeaderKeys.
KeyRank(key) ==
    IF key = "" THEN 0
    ELSE IF \E i \in 1..Len(HeaderKeys) : HeaderKeys[i] = key
    THEN 1 + (CHOOSE i \in 1..Len(HeaderKeys) : HeaderKeys[i] = key)
    ELSE 1

\* the unique index missing
UniqueNotEnforced(key) == FALSE

\* unique index on transactions.idempotency_key
UniqueViolation(key) ==
    \E i \in 1..Len(transactions) : transactions[i].idempotency_key = key

\* lockForUpdate() left out: the read never waits
RowLockIgnored(u) == TRUE

\* a users row can be locked for update when no other store transaction holds it
RowLockFree(u) == locks[u] = 0

\* the store transaction holding the lock of users row u, 0 when there is none
Holder(u) == IF u \in DOMAIN locks THEN locks[u] ELSE 0

\* $locked_users: the rows the lock statement of caller p returned
LockedUsers(p) == {u \in DOMAIN locks : locks[u] = p}

\* the balance compared with the amount alone
InsufficientBalanceWithoutCommission(balance, amount, total_debited) == balance < amount

\* if ($sender->balance < $total_debited)
InsufficientBalance(balance, amount, total_debited) == balance < total_debited

\* (the sender debited a second time)
NewBalancesDebitedTwice(sender_balance, receiver_balance, amount, total_debited) ==
    [sender |-> sender_balance - 2 * total_debited,
     receiver |-> receiver_balance + amount]

\* $sender->balance -= $total_debited; $receiver->balance += $amount
NewBalances(sender_balance, receiver_balance, amount, total_debited) ==
    [sender |-> sender_balance - total_debited, receiver |-> receiver_balance + amount]

UsedUuids ==
    {transactions[i].uuid : i \in 1..Len(transactions)}
        \cup {proc[q].w_txn[1].uuid : q \in {r \in Procs : proc[r].w_txn # <<>>}}

\* HasUuids: a uuid not used by any other row
FreshUuid == CHOOSE n \in 1..(Cardinality(UsedUuids) + 1) : n \notin UsedUuids

UsedOutboxIds ==
    {transaction_outbox[i].id : i \in 1..Len(transaction_outbox)}
        \cup {proc[q].w_outbox[1].id : q \in {r \in Procs : proc[r].w_outbox # <<>>}}

\* $table->id(): auto-increment key of transaction_outbox
FreshOutboxId == CHOOSE n \in 1..(Cardinality(UsedOutboxIds) + 1) : n \notin UsedOutboxIds

ActiveCalls == Cardinality({q \in Procs : proc[q].pc # "idle"})

ReleaseLocks(p) == [u \in DOMAIN locks |-> IF locks[u] = p THEN 0 ELSE locks[u]]

ReturnRecord(c, outcome, uuid) ==
    [caller |-> c.caller, key |-> c.key, sender_id |-> c.sender_id,
     receiver_id |-> c.receiver_id, amount |-> c.amount, outcome |-> outcome,
     uuid |-> uuid, after |-> c.after]

\* the call of caller p returns (a Transaction) or throws
Return(p, outcome, uuid) ==
    /\ returned' = Append(returned, ReturnRecord(proc[p], outcome, uuid))
    /\ proc' = [proc EXCEPT ![p] = IdleProc]

\* usleep(100000 * $attempt_count), in microseconds
Backoff(attempt_count) == 100000 * attempt_count

\* the QueryException rethrown by throw $e, named by its SQLSTATE class
QueryExceptionOutcome(code) ==
    IF code = "23000" THEN "duplicate_key" ELSE "deadlock"

\* DB::transaction rolls the open store transaction back; the catch block of
\* transfer keeps the exception in $last_exception (here: its class), retries
\* a deadlock after the backoff while attempts remain and rethrows otherwise.
CatchQueryException(p, code) ==
    /\ locks' = ReleaseLocks(p)
    /\ IF isDeadlock(code) /\ proc[p].attempt_count < MAX_RETRIES
       THEN /\ proc' = [proc EXCEPT ![p] =
                   [@ EXCEPT !.pc = "begin", !.gap = <<>>,
                             !.to_lock = <<>>, !.w_users = <<>>,
                             !.w_txn = <<>>, !.w_snaps = <<>>, !.w_outbox = <<>>,
                             !.w_jobs = <<>>,
                             !.last_exception = QueryExceptionOutcome(code),
                             !.slept = Append(@, Backoff(proc[p].attempt_count))]]
            /\ UNCHANGED returned
       ELSE Return(p, QueryExceptionOutcome(code), 0)

Init ==
    /\ users = (1 :> [balance |-> 102, initial_balance |-> 102])
                 @@ (2 :> [balance |-> 1, initial_balance |-> 1])
    /\ transactions = <<>>
    /\ balance_snapshots = <<>>
    /\ transaction_outbox = <<>>
    /\ jobs = <<>>
    /\ locks = [u \in ExistingUsers |-> 0]
    /\ proc = [p \in Procs |-> IdleProc]
    /\ returned = <<>>
    /\ pre_balances = <<>>
    /\ calcAmount = <<>>
    /\ calcBalance = <<>>
    /\ calcResult = [outcome |-> "none"]
    /\ worker = [w \in Workers |-> IdleWorker]
    /\ job_attempts = <<>>
    /\ failed_jobs = {}
    /\ broadcasts = <<>>
    /\ emitted = {}
    /\ pushed = <<>>
    /\ variant = "event"
    /\ sink = "up"
    /\ session = ClosedSession
    /\ responses = <<>>
    /\ request = [p \in Procs |-> IdleRequest]
    /\ stats = IdleStats
    /\ clock = 0
    /\ locking \in StoreLocking

\* transfer(): validateTransferInputs, the commission, and the retry loop's set-up
TransferCall(p, sender_id, receiver_id, amount, key) ==
    /\ proc[p].pc = "idle"
    /\ LET call == [IdleProc EXCEPT !.caller = p, !.sender_id = sender_id,
                                    !.receiver_id = receiver_id,
                                    !.amount = amount, !.key = key,
                                    !.after = Len(returned)]
           v == validateTransferInputs(sender_id, receiver_id, amount)
       IN  IF v # "ok"
           THEN /\ returned' = Append(returned, ReturnRecord(call, v, 0))
                /\ UNCHANGED proc
           ELSE /\ proc' = [proc EXCEPT ![p] =
                       [call EXCEPT !.pc = "begin",
                                    !.commission = Commission(amount),
                                    !.total_debited = TotalDebited(amount)]]
                /\ UNCHANGED returned
    /\ UNCHANGED <<storeVars, jobs, locks, pre_balances, calcVars, workerVars, edgeVars>>

\* a call of transfer by caller p, of at most MaxCalls calls
Transfer(p, sender_id, receiver_id, amount, key) ==
    /\ Len(returned) + ActiveCalls < MaxCalls
    /\ TransferCall(p, sender_id, receiver_id, amount, key)

\* the lock the idempotency lookup of a missing key leaves behind
GapLock(key) == IF locking = "gaps" THEN <<key>> ELSE <<>>

\* the callers holding an uncommitted row of the key caller p looks up, for
\* which the locking read of a store that locks gaps waits
LookupWaitsFor(p) ==
    IF locking = "gaps"
    THEN {q \in Procs \ {p} :
             \E i \in 1..Len(proc[q].w_txn) :
                 proc[q].w_txn[i].idempotency_key = proc[p].key}
    ELSE {}

\* One pass of the while loop up to the idempotency lookup, a locking read
\* inside DB::transaction: an existing row is returned (the store transaction
\* commits with nothing written).  When the key has no row, a store that
\* locks gaps keeps the gap of the key locked for this store transaction,
\* and its read waits while another store transaction holds an uncommitted
\* row of the key; a store that locks rows only locks nothing and sees no
\* uncommitted row.
BeginAttempt(p) ==
    /\ proc[p].pc = "begin"
    /\ IF proc[p].attempt_count >= MAX_RETRIES
       THEN Return(p, "lock_contention", 0)
       ELSE LET existing == ExistingTransaction(proc[p].key)
            IN  IF existing # <<>>
                THEN Return(p, "ok", existing[1].uuid)
                ELSE /\ LookupWaitsFor(p) = {}
                     /\ proc' = [proc EXCEPT ![p] =
                            [@ EXCEPT !.pc = "lock",
                                      !.attempt_count = @ + 1,
                                      !.gap = GapLock(proc[p].key),
                                      !.to_lock = LockOrder(proc[p].sender_id,
                                                           proc[p].receiver_id)]]
                     /\ UNCHANGED returned
    /\ UNCHANGED <<storeVars, jobs, locks, pre_balances, calcVars, workerVars, edgeVars>>

\* User::whereIn(...)->orderBy('id')->lockForUpdate(): the next row in id
\* order is locked once it is free, an id without a row is passed over; the
\* statement ends after the last id.
LockUsers(p) ==
    /\ proc[p].pc = "lock"
    /\ IF proc[p].to_lock = <<>>
       THEN /\ proc' = [proc EXCEPT ![p].pc = "exec"]
            /\ UNCHANGED locks
       ELSE IF Head(proc[p].to_lock) \notin DOMAIN users
       THEN /\ proc' = [proc EXCEPT ![p].to_lock = Tail(@)]
            /\ UNCHANGED locks
       ELSE /\ RowLockFree(Head(proc[p].to_lock))
            /\ locks' = [locks EXCEPT ![Head(proc[p].to_lock)] = p]
            /\ proc' = [proc EXCEPT ![p].to_lock = Tail(@)]
    /\ UNCHANGED <<storeVars, jobs, returned, pre_balances, calcVars, workerVars, edgeVars>>

\* The existence check, the balance check and the two balance updates.
UpdateBalances(p) ==
    /\ proc[p].pc = "exec"
    /\ LET c == proc[p]
       IN  IF c.sender_id \notin LockedUsers(p) \/ c.receiver_id \notin LockedUsers(p)
           THEN /\ Return(p, "not_found", 0)
                /\ locks' = ReleaseLocks(p)
           ELSE IF InsufficientBalance(users[c.sender_id].balance, c.amount, c.total_debited)
           THEN /\ Return(p, "insufficient_balance", 0)
                /\ locks' = ReleaseLocks(p)
           ELSE LET nb == NewBalances(users[c.sender_id].balance,
                                      users[c.receiver_id].balance,
                                      c.amount, c.total_debited)
                IN  /\ proc' = [proc EXCEPT ![p] =
                           [@ EXCEPT !.pc = "insert",
                                     !.w_users = (c.sender_id :> nb.sender)
                                                   @@ (c.receiver_id :> nb.receiver)]]
                    /\ UNCHANGED <<returned, locks>>
    /\ UNCHANGED <<storeVars, jobs, pre_balances, calcVars, workerVars, edgeVars>>


\* the keys of the unique index on idempotency_key: the committed rows and
\* the rows open store transactions inserted
IndexKeys ==
    {transactions[i].idempotency_key : i \in 1..Len(transactions)}
        \cup UNION {{proc[q].w_txn[i].idempotency_key : i \in 1..Len(proc[q].w_txn)}
                        : q \in Procs}

\* two keys lie in one gap of the index: no row of the index lies between them
SameGap(a, b) ==
    ~\E r \in IndexKeys :
          \/ KeyRank(a) < KeyRank(r) /\ KeyRank(r) < KeyRank(b)
          \/ KeyRank(b) < KeyRank(r) /\ KeyRank(r) < KeyRank(a)

\* the callers whose gap lock holds back the insert of caller p's row
InsertWaitsFor(p) ==
    {q \in Procs \ {p} : proc[q].gap # <<>> /\ SameGap(proc[q].gap[1], proc[p].key)}

\* another caller's store transaction is open
OtherOpen(p) ==
    \E q \in Procs \ {p} : proc[q].pc \in {"lock", "exec", "insert", "commit"}

\* keys of the rows caller q inserted and has not committed yet (an insert of
\* the same key by another store transaction waits for them)
PendingKeys(q) ==
    {proc[q].w_txn[i].idempotency_key : i \in 1..Len(proc[q].w_txn)}

\* the row inserted as pending, to be completed later
TransactionRowPending(c, uuid) ==
    [uuid |-> uuid, sender_id |-> c.sender_id, receiver_id |-> c.receiver_id,
     amount |-> c.amount, commission |-> c.commission, status |-> "pending",
     idempotency_key |-> c.key, created_at |-> clock]

\* Transaction::create([...]) with status 'completed'; created_at is the
\* column's default, the current time
TransactionRow(c, uuid) ==
    [uuid |-> uuid, sender_id |-> c.sender_id, receiver_id |-> c.receiver_id,
     amount |-> c.amount, commission |-> c.commission, status |-> "completed",
     idempotency_key |-> c.key, created_at |-> clock]

\* the receiver's snapshot left out
SnapshotRowsSenderOnly(c, uuid) ==
    <<[user_id |-> c.sender_id, balance |-> c.w_users[c.sender_id],
       transaction_uuid |-> uuid]>>

\* the two BalanceSnapshot::create([...]), with the balances held in memory
SnapshotRows(c, uuid) ==
    <<[user_id |-> c.sender_id, balance |-> c.w_users[c.sender_id],
       transaction_uuid |-> uuid],
      [user_id |-> c.receiver_id, balance |-> c.w_users[c.receiver_id],
       transaction_uuid |-> uuid]>>

\* TransactionOutbox::create([...]) with status 'pending'; the columns not
\* given take the defaults of the table (attempts 0, the others null)
OutboxRow(c, uuid, oid) ==
    [id |-> oid, transaction_uuid |-> uuid, event_type |-> "money.transferred",
     payload |-> [transaction_uuid |-> uuid, sender_id |-> c.sender_id,
                  receiver_id |-> c.receiver_id, amount |-> c.amount,
                  commission |-> c.commission,
                  sender_balance |-> c.w_users[c.sender_id],
                  receiver_balance |-> c.w_users[c.receiver_id]],
     status |-> "pending", attempts |-> 0, error |-> "null",
     last_attempted_at |-> "null", delivered_at |-> "null"]

\* dispatch without afterCommit(): the job is on the queue at once
DispatchAtOnce(queue, oid) == [queue |-> Append(queue, oid), held |-> <<>>]

\* ProcessTransactionOutbox::dispatch($outbox->id)->onQueue('events')->afterCommit():
\* the queue is left as it is and the job is held until the commit
DispatchAfterCommit(queue, oid) == [queue |-> queue, held |-> <<oid>>]

\* Transaction::create, the two BalanceSnapshot::create, TransactionOutbox::create
\* and the dispatch of ProcessTransactionOutbox (held back until the commit).
\* The insert waits while another open store transaction holds a row of the
\* key or a lock on the gap of the key.
InsertRows(p) ==
    /\ proc[p].pc = "insert"
    /\ \A q \in Procs \ {p} : proc[p].key \notin PendingKeys(q)
    /\ InsertWaitsFor(p) = {}
    /\ IF UniqueViolation(proc[p].key)
       THEN /\ CatchQueryException(p, "23000")
            /\ UNCHANGED jobs
       ELSE LET c    == proc[p]
                uuid == FreshUuid
                oid  == FreshOutboxId
            IN  /\ proc' = [proc EXCEPT ![p] =
                       [@ EXCEPT !.pc = "commit",
                                 !.w_txn = <<TransactionRow(c, uuid)>>,
                                 !.w_snaps = SnapshotRows(c, uuid),
                                 !.w_outbox = <<OutboxRow(c, uuid, oid)>>,
                                 !.w_jobs = DispatchAfterCommit(jobs, oid).held]]
                /\ jobs' = DispatchAfterCommit(jobs, oid).queue
                /\ UNCHANGED <<returned, locks>>
    /\ UNCHANGED <<storeVars, pre_balances, calcVars, workerVars, edgeVars>>

\* AuthService::register: User::create([...]) inserts the next users row, with
\* balance and initial_balance INITIAL_BALANCE
Register ==
    /\ Cardinality(DOMAIN users) < MaxUsers
    /\ LET id == Cardinality(DOMAIN users) + 1
       IN  /\ users' = users @@ (id :> [balance |-> INITIAL_BALANCE,
                                        initial_balance |-> INITIAL_BALANCE])
           /\ locks' = locks @@ (id :> 0)
    /\ UNCHANGED <<transactions, balance_snapshots, transaction_outbox, jobs, proc,
                   returned, pre_balances, calcVars, workerVars, edgeVars>>

\* DB::transaction commits: the writes of the closure become visible together
\* and the row locks are released; the closure's Transaction is kept, the job
\* is still held back.
Commit(p) ==
    /\ proc[p].pc = "commit"
    /\ LET c == proc[p]
       IN  /\ users' = [u \in DOMAIN users |->
                           IF u \in DOMAIN c.w_users
                           THEN [users[u] EXCEPT !.balance = c.w_users[u]]
                           ELSE users[u]]
           /\ transactions' = transactions \o c.w_txn
           /\ balance_snapshots' = balance_snapshots \o c.w_snaps
           /\ transaction_outbox' = transaction_outbox \o c.w_outbox
           /\ pre_balances' = Append(pre_balances,
                                     [uuid |-> c.w_txn[1].uuid,
                                      sender |-> users[c.sender_id].balance,
                                      receiver |-> users[c.receiver_id].balance])
           /\ proc' = [proc EXCEPT ![p] =
                  [@ EXCEPT !.pc = "dispatch", !.transaction = c.w_txn[1].uuid,
                            !.gap = <<>>, !.w_users = <<>>, !.w_txn = <<>>, !.w_snaps = <<>>,
                            !.w_outbox = <<>>]]
    /\ locks' = ReleaseLocks(p)
    /\ UNCHANGED <<jobs, returned, calcVars, workerVars, edgeVars>>

\* After the commit the callbacks registered by afterCommit() run: the job of
\* the outbox row is pushed onto the queue; then transfer returns the
\* Transaction.
AfterCommit(p) ==
    /\ proc[p].pc = "dispatch"
    /\ jobs' = jobs \o proc[p].w_jobs
    /\ Return(p, "ok", proc[p].transaction)
    /\ UNCHANGED <<storeVars, locks, pre_balances, calcVars, workerVars, edgeVars>>

\* The store picks the statement of caller p as the victim of a deadlock while
\* it waits for a lock another open store transaction holds.
StoreDeadlock(p) ==
    /\ \/ /\ proc[p].pc = "lock"
          /\ proc[p].to_lock # <<>>
          /\ Holder(Head(proc[p].to_lock)) \notin {0, p}
       \/ /\ proc[p].pc = "insert"
          /\ OtherOpen(p)
    /\ \E code \in {"40001", "1213"} : CatchQueryException(p, code)
    /\ UNCHANGED <<storeVars, jobs, pre_balances, calcVars, workerVars, edgeVars>>

Next ==
    \/ \E p \in Procs, in \in TransferInputs :
           Transfer(p, in[1][1], in[1][2], in[2], in[3])
    \/ \E p \in Procs : BeginAttempt(p)
    \/ \E p \in Procs : LockUsers(p)
    \/ \E p \in Procs : UpdateBalances(p)
    \/ \E p \in Procs : InsertRows(p)
    \/ \E p \in Procs : Commit(p)
    \/ \E p \in Procs : AfterCommit(p)
    \/ \E p \in Procs : StoreDeadlock(p)
    \/ Register

Spec == Init /\ [][Next]_vars

(***************************************************************************)
(* A key used again after a call of it was rejected: three calls, so that  *)
(* a call can be the victim of a deadlock in each of its attempts while    *)
(* another call is open, and a third call of its key can start after it    *)
(* returned.                                                               *)
(***************************************************************************)
MaxReuseCalls == 3

ReuseInputs ==
    {<<<<1, 2>>, 1, "k1">>, <<<<1, 2>>, 1, "k2">>, <<<<2, 1>>, 100, "k2">>,
     <<<<1, 3>>, 1, "k1">>}

\* a call of transfer by caller p, of at most MaxReuseCalls calls
ReuseTransfer(p, sender_id, receiver_id, amount, key) ==
    /\ Len(returned) + ActiveCalls < MaxReuseCalls
    /\ TransferCall(p, sender_id, receiver_id, amount, key)

ReuseNext ==
    \/ \E p \in Procs, in \in ReuseInputs :
           ReuseTransfer(p, in[1][1], in[1][2], in[2], in[3])
    \/ \E p \in Procs : BeginAttempt(p)
    \/ \E p \in Procs : LockUsers(p)
    \/ \E p \in Procs : UpdateBalances(p)
    \/ \E p \in Procs : InsertRows(p)
    \/ \E p \in Procs : Commit(p)
    \/ \E p \in Procs : AfterCommit(p)
    \/ \E p \in Procs : StoreDeadlock(p)

SpecReuse == Init /\ [][ReuseNext]_vars

(***************************************************************************)
(* Opposite transfers between one pair of users on a store that reports a  *)
(* deadlock exactly when open store transactions wait for each other in a  *)
(* cycle (and picks one of them as the victim).                            *)
(***************************************************************************)
\* the callers whose open store transaction holds what caller p waits for: an
\* uncommitted row of its key in the idempotency lookup, a users row in the
\* lock statement, an uncommitted row of its key or a lock on the gap of its
\* key in the insert
WaitsFor(p) ==
    IF proc[p].pc = "begin"
    THEN LookupWaitsFor(p)
    ELSE IF /\ proc[p].pc = "lock"
            /\ proc[p].to_lock # <<>>
            /\ Holder(Head(proc[p].to_lock)) \notin {0, p}
    THEN {Holder(Head(proc[p].to_lock))}
    ELSE IF proc[p].pc = "insert"
    THEN {q \in Procs \ {p} : proc[p].key \in PendingKeys(q)} \cup InsertWaitsFor(p)
    ELSE {}

RECURSIVE WaitClosure(_, _)
WaitClosure(S, n) ==
    IF n = 0 THEN S
    ELSE WaitClosure(S \cup UNION {WaitsFor(q) : q \in S}, n - 1)

InWaitCycle(p) == p \in WaitClosure(WaitsFor(p), NumProcs)

PairInputs == {<<<<1, 2>>, 100, "k1">>, <<<<2, 1>>, 50, "k2">>}

\* the lock statement on this store: it waits, or fails as the deadlock victim
PairLockUsers(p) == IF InWaitCycle(p) THEN StoreDeadlock(p) ELSE LockUsers(p)

\* the inserts on this store
PairInsertRows(p) == IF InWaitCycle(p) THEN StoreDeadlock(p) ELSE InsertRows(p)

PairNext ==
    \/ \E p \in Procs, in \in PairInputs :
           Transfer(p, in[1][1], in[1][2], in[2], in[3])
    \/ \E p \in Procs : BeginAttempt(p)
    \/ \E p \in Procs : PairLockUsers(p)
    \/ \E p \in Procs : UpdateBalances(p)
    \/ \E p \in Procs : PairInsertRows(p)
    \/ \E p \in Procs : Commit(p)
    \/ \E p \in Procs : AfterCommit(p)

SpecPair == Init /\ [][PairNext]_vars

(***************************************************************************)
(* The outbox worker: the queue hands the job of an outbox row to a worker *)
(* process, which runs ProcessTransactionOutbox::handle on it; a job whose *)
(* handle throws is released back to the queue until it was tried $tries   *)
(* times, and then failed() is called.                                     *)
(***************************************************************************)
\* public $tries = 5
Tries == 5

\* the two ProcessTransactionOutbox classes of the repository: one dispatches
\* the MoneyReceived event, one triggers the Pusher client itself
WorkerVariants == {"event", "pusher"}

\* error not mass assignable
OutboxFillableWithoutError ==
    {"transaction_uuid", "event_type", "payload", "status", "attempts", "processed_at"}

\* protected $fillable of TransactionOutbox
OutboxFillable ==
    {"transaction_uuid", "event_type", "payload", "status", "attempts", "error",
     "processed_at"}

\* $required_fields of validatePayload
RequiredFields ==
    {"transaction_uuid", "sender_id", "receiver_id", "amount", "commission",
     "sender_balance", "receiver_balance"}

\* validatePayload: isset($payload[$field]) for every required field (a field
\* that is null is a field the payload record does not have)
validatePayload(payload) == RequiredFields \subseteq DOMAIN payload

\* The payload attribute as the model's array cast returns it: an array (a
\* record here), or a string when the column holds a text encoded a second
\* time.  JsonText(value) is the string that decodes to value; InvalidJsonText
\* is a string that does not decode.
JsonText(value) == [json |-> <<value>>]

InvalidJsonText == [json |-> <<>>]

\* is_string($payload)
is_string(payload) == DOMAIN payload = {"json"}

\* json_decode($payload, true): <<value>>, or <<>> when json_last_error() is
\* not JSON_ERROR_NONE
json_decode(payload) == payload.json

\* $payload as handle() passes it to validatePayload
PayloadArray(payload) ==
    IF is_string(payload) THEN json_decode(payload)[1] ELSE payload

\* TransactionOutbox::find($this->outboxId): <<>> for null
FindOutbox(id) ==
    SelectSeq(transaction_outbox, LAMBDA r : r.id = id)

\* $outbox->update($attrs) on the model instance loaded as `model`: fill()
\* keeps the fillable attributes and silently drops the others, save() writes
\* the attributes that differ from the loaded ones to the row of the store
UpdateOutbox(rows, model, attrs) ==
    [k \in 1..Len(rows) |->
        IF rows[k].id = model.id
        THEN [f \in DOMAIN rows[k] |->
                 IF f \in DOMAIN attrs /\ f \in OutboxFillable /\ attrs[f] # model[f]
                 THEN attrs[f]
                 ELSE rows[k][f]]
        ELSE rows[k]]

\* the entry removed instead of counted
DeleteOutbox(rows, id) == SelectSeq(rows, LAMBDA r : r.id # id)

\* $outbox->increment('attempts'): attempts = attempts + 1 in the store
IncrementAttempts(rows, id) ==
    [k \in 1..Len(rows) |->
        IF rows[k].id = id
        THEN [rows[k] EXCEPT !.attempts = @ + 1]
        ELSE rows[k]]

\* the event carrying the sender's balance as new_balance
MoneyReceivedSenderBalance(payload) ==
    [channel |-> <<"private-user", payload.receiver_id>>, name |-> "money.received",
     transaction_uuid |-> payload.transaction_uuid, amount |-> payload.amount,
     new_balance |-> payload.sender_balance]

\* the money.received event of an outbox payload, on the receiver's private channel
MoneyReceived(payload) ==
    [channel |-> <<"private-user", payload.receiver_id>>, name |-> "money.received",
     transaction_uuid |-> payload.transaction_uuid, amount |-> payload.amount,
     new_balance |-> payload.receiver_balance]

JobAttempts(id) == IF id \in DOMAIN job_attempts THEN job_attempts[id] ELSE 0

\* failed(): the update of the row that its find returned as `found`, with the
\* message of the exception; nothing is written when no row was found
Failed(rows, found, message) ==
    IF found = <<>> THEN rows
    ELSE UpdateOutbox(rows, found[1],
                      [status |-> "failed", last_attempted_at |-> "now",
                       error |-> message])

\* The queue hands the next job to worker w and counts the attempt.  A job
\* handed out more than $tries times is not run: the queue worker fails it
\* with its own exception, and failed() is called next.
Pop(w) ==
    /\ worker[w].pc = "idle"
    /\ jobs # <<>>
    /\ LET id == Head(jobs)
       IN  /\ jobs' = Tail(jobs)
           /\ job_attempts' = (id :> JobAttempts(id) + 1) @@ job_attempts
           /\ worker' = [worker EXCEPT ![w] =
                  IF JobAttempts(id) + 1 > Tries
                  THEN [IdleWorker EXCEPT !.pc = "thrown", !.outbox_id = id,
                                          !.exception = "attempted too many times"]
                  ELSE [IdleWorker EXCEPT !.pc = "handle", !.outbox_id = id]]
    /\ UNCHANGED <<storeVars, locks, proc, returned, pre_balances, calcVars,
                   failed_jobs, broadcasts, emitted, pushed, variant, edgeVars>>

\* handle() up to the point where it writes or sends: the row is loaded (the
\* read is outside any store transaction and holds no lock afterwards); a
\* missing or delivered row ends the job; a payload read as a string is
\* decoded; a payload that cannot be decoded or lacks a required field is
\* about to be marked failed; otherwise the event is about to be sent.
Handle(w) ==
    /\ worker[w].pc = "handle"
    /\ LET found == FindOutbox(worker[w].outbox_id)
       IN  IF found = <<>> \/ found[1].status = "delivered"
           THEN worker' = [worker EXCEPT ![w] = IdleWorker]
           ELSE IF is_string(found[1].payload) /\ json_decode(found[1].payload) = <<>>
           THEN worker' = [worker EXCEPT ![w].pc = "mark", ![w].outbox = found[1],
                                         ![w].exception = "Invalid JSON payload"]
           ELSE IF ~validatePayload(PayloadArray(found[1].payload))
           THEN worker' = [worker EXCEPT ![w].pc = "mark", ![w].outbox = found[1],
                                         ![w].exception = "Invalid payload structure"]
           ELSE worker' = [worker EXCEPT ![w].pc = "send", ![w].outbox = found[1],
                                         ![w].payload = PayloadArray(found[1].payload)]
    /\ UNCHANGED <<storeVars, jobs, locks, proc, returned, pre_balances, calcVars,
                   job_attempts, failed_jobs, broadcasts, emitted, pushed, variant,
                   edgeVars>>

\* markAsFailed: the update of the row handle() loaded, with the reason;
\* handle() returns and the job is done.
MarkAsFailed(w) ==
    /\ worker[w].pc = "mark"
    /\ transaction_outbox' =
           UpdateOutbox(transaction_outbox, worker[w].outbox,
                        [status |-> "failed", last_attempted_at |-> "now",
                         error |-> worker[w].exception])
    /\ worker' = [worker EXCEPT ![w] = IdleWorker]
    /\ UNCHANGED <<users, transactions, balance_snapshots, jobs, locks, proc,
                   returned, pre_balances, calcVars, job_attempts, failed_jobs,
                   broadcasts, emitted, pushed, variant, edgeVars>>

\* handle() threw: its catch block increments attempts of the row in the store
\* and rethrows; handle() is left with the exception.
HandleException(w, message) ==
    /\ transaction_outbox' = IncrementAttempts(transaction_outbox, worker[w].outbox_id)
    /\ worker' = [worker EXCEPT ![w].pc = "thrown", ![w].exception = message]

\* The sender is looked up and the event is sent: MoneyReceived::dispatch hands
\* it to the broadcaster, which queues it as a BroadcastEvent job; the other
\* handle() calls $pusher->trigger and has published it when that returns.
Send(w) ==
    /\ worker[w].pc = "send"
    /\ worker[w].payload.sender_id \in DOMAIN users
    /\ IF variant = "pusher"
       THEN /\ pushed' = Append(pushed, MoneyReceived(worker[w].payload))
            /\ UNCHANGED broadcasts
       ELSE /\ broadcasts' = Append(broadcasts, MoneyReceived(worker[w].payload))
            /\ UNCHANGED pushed
    /\ emitted' = emitted \cup {MoneyReceived(worker[w].payload)}
    /\ worker' = [worker EXCEPT ![w].pc = "update"]
    /\ UNCHANGED <<storeVars, jobs, locks, proc, returned, pre_balances, calcVars,
                   job_attempts, failed_jobs, variant, edgeVars>>

\* The sender is missing, or sending the event throws (the push sink or the
\* queue of the broadcaster cannot be reached).
SendFails(w) ==
    /\ worker[w].pc = "send"
    /\ HandleException(w, IF worker[w].payload.sender_id \in DOMAIN users
                          THEN "send failed" ELSE "Sender not found")
    /\ UNCHANGED <<users, transactions, balance_snapshots, jobs, locks, proc,
                   returned, pre_balances, calcVars, job_attempts, failed_jobs,
                   broadcasts, emitted, pushed, variant, edgeVars>>

\* The queue worker caught the exception handle() threw and the job has tries
\* left: the job is released to the queue for another try.
ReleaseJob(w) ==
    /\ worker[w].pc = "thrown"
    /\ JobAttempts(worker[w].outbox_id) < Tries
    /\ jobs' = Append(jobs, worker[w].outbox_id)
    /\ worker' = [worker EXCEPT ![w] = IdleWorker]
    /\ UNCHANGED <<storeVars, locks, proc, returned, pre_balances, calcVars,
                   job_attempts, failed_jobs, broadcasts, emitted, pushed, variant,
                   edgeVars>>

\* The queue worker caught the exception handle() threw and the job was tried
\* $tries times: the job is failed and failed() is called, which looks the row
\* up.
FailedFind(w) ==
    /\ worker[w].pc = "thrown"
    /\ JobAttempts(worker[w].outbox_id) >= Tries
    /\ worker' = [worker EXCEPT ![w].pc = "failed",
                                ![w].outbox = FindOutbox(worker[w].outbox_id)]
    /\ UNCHANGED <<storeVars, jobs, locks, proc, returned, pre_balances, calcVars,
                   job_attempts, failed_jobs, broadcasts, emitted, pushed, variant,
                   edgeVars>>

\* failed() updates the row it found; the job goes to the failed jobs.
FailedUpdate(w) ==
    /\ worker[w].pc = "failed"
    /\ transaction_outbox' =
           Failed(transaction_outbox, worker[w].outbox, worker[w].exception)
    /\ failed_jobs' = failed_jobs \cup {worker[w].outbox_id}
    /\ worker' = [worker EXCEPT ![w] = IdleWorker]
    /\ UNCHANGED <<users, transactions, balance_snapshots, jobs, locks, proc,
                   returned, pre_balances, calcVars, job_attempts, broadcasts,
                   emitted, pushed, variant, edgeVars>>

\* $outbox->update(['status' => 'delivered', ...]); handle() returns and the
\* job is done.
MarkDelivered(w) ==
    /\ worker[w].pc = "update"
    /\ transaction_outbox' =
           UpdateOutbox(transaction_outbox, worker[w].outbox,
                        [status |-> "delivered", delivered_at |-> "now",
                         last_attempted_at |-> "now",
                         attempts |-> worker[w].outbox.attempts])
    /\ worker' = [worker EXCEPT ![w] = IdleWorker]
    /\ UNCHANGED <<users, transactions, balance_snapshots, jobs, locks, proc,
                   returned, pre_balances, calcVars, job_attempts, failed_jobs,
                   broadcasts, emitted, pushed, variant, edgeVars>>

\* A queued BroadcastEvent job runs and publishes its event on the push sink.
BroadcastEvent ==
    /\ broadcasts # <<>>
    /\ pushed' = Append(pushed, Head(broadcasts))
    /\ broadcasts' = Tail(broadcasts)
    /\ UNCHANGED <<storeVars, jobs, locks, proc, returned, pre_balances, calcVars,
                   worker, job_attempts, failed_jobs, emitted, variant, edgeVars>>

\* A queued BroadcastEvent job fails: the push sink cannot be reached.
BroadcastFails ==
    /\ broadcasts # <<>>
    /\ broadcasts' = Tail(broadcasts)
    /\ UNCHANGED <<storeVars, jobs, locks, proc, returned, pre_balances, calcVars,
                   worker, job_attempts, failed_jobs, emitted, pushed, variant,
                   edgeVars>>

\* The store transaction has committed and the process ends before the
\* held-back job reaches the queue (it is killed, or the queue cannot be
\* reached).
CommitDispatchLost(p) ==
    /\ proc[p].pc = "dispatch"
    /\ Return(p, "dispatch_lost", proc[p].transaction)
    /\ UNCHANGED <<storeVars, jobs, locks, pre_balances, calcVars, workerVars,
                   edgeVars>>

OutboxInputs == {<<<<1, 2>>, 50, "k1">>, <<<<1, 2>>, 1, "k2">>}

OutboxInit ==
    /\ users = (1 :> [balance |-> 102, initial_balance |-> 102])
                 @@ (2 :> [balance |-> 1, initial_balance |-> 1])
    /\ transactions = <<>>
    /\ balance_snapshots = <<>>
    /\ transaction_outbox = <<>>
    /\ jobs = <<>>
    /\ locks = [u \in ExistingUsers |-> 0]
    /\ proc = [p \in Procs |-> IdleProc]
    /\ returned = <<>>
    /\ pre_balances = <<>>
    /\ calcAmount = <<>>
    /\ calcBalance = <<>>
    /\ calcResult = [outcome |-> "none"]
    /\ worker = [w \in Workers |-> IdleWorker]
    /\ job_attempts = <<>>
    /\ failed_jobs = {}
    /\ broadcasts = <<>>
    /\ emitted = {}
    /\ pushed = <<>>
    /\ variant \in WorkerVariants
    /\ sink = "up"
    /\ session = ClosedSession
    /\ responses = <<>>
    /\ request = [p \in Procs |-> IdleRequest]
    /\ stats = IdleStats
    /\ clock = 0
    /\ locking \in StoreLocking

OutboxNext ==
    \/ \E p \in Procs, in \in OutboxInputs :
           Transfer(p, in[1][1], in[1][2], in[2], in[3])
    \/ \E p \in Procs : BeginAttempt(p)
    \/ \E p \in Procs : PairLockUsers(p)
    \/ \E p \in Procs : UpdateBalances(p)
    \/ \E p \in Procs : PairInsertRows(p)
    \/ \E p \in Procs : Commit(p)
    \/ \E p \in Procs : AfterCommit(p)
    \/ \E p \in Procs : CommitDispatchLost(p)
    \/ \E w \in Workers : Pop(w)
    \/ \E w \in Workers : Handle(w)
    \/ \E w \in Workers : Send(w)
    \/ \E w \in Workers : SendFails(w)
    \/ \E w \in Workers : ReleaseJob(w)
    \/ \E w \in Workers : FailedFind(w)
    \/ \E w \in Workers : FailedUpdate(w)
    \/ \E w \in Workers : MarkDelivered(w)
    \/ BroadcastEvent
    \/ BroadcastFails

SpecOutbox == OutboxInit /\ [][OutboxNext]_vars

\* Every started transfer call and every queued job is run to its end: the
\* request workers and the queue workers are processes that keep running.
OutboxFairness ==
    /\ \A p \in Procs :
           /\ WF_vars(BeginAttempt(p))
           /\ WF_vars(PairLockUsers(p))
           /\ WF_vars(UpdateBalances(p))
           /\ WF_vars(PairInsertRows(p))
           /\ WF_vars(Commit(p))
           /\ WF_vars(AfterCommit(p) \/ CommitDispatchLost(p))
    /\ \A w \in Workers :
           /\ WF_vars(Pop(w))
           /\ WF_vars(Handle(w))
           /\ WF_vars(Send(w) \/ SendFails(w))
           /\ WF_vars(ReleaseJob(w))
           /\ WF_vars(FailedFind(w))
           /\ WF_vars(FailedUpdate(w))
           /\ WF_vars(MarkDelivered(w))
    /\ WF_vars(BroadcastEvent \/ BroadcastFails)

FairSpecOutbox == SpecOutbox /\ OutboxFairness

\* The outbox consumed by one queue worker process (`queue:work` run once):
\* the engine and worker 1 alone.
SingleWorkers == {1}

SingleNext ==
    \/ \E p \in Procs, in \in OutboxInputs :
           Transfer(p, in[1][1], in[1][2], in[2], in[3])
    \/ \E p \in Procs : BeginAttempt(p)
    \/ \E p \in Procs : PairLockUsers(p)
    \/ \E p \in Procs : UpdateBalances(p)
    \/ \E p \in Procs : PairInsertRows(p)
    \/ \E p \in Procs : Commit(p)
    \/ \E p \in Procs : AfterCommit(p)
    \/ \E w \in SingleWorkers : Pop(w)
    \/ \E w \in SingleWorkers : Handle(w)
    \/ \E w \in SingleWorkers : Send(w)
    \/ \E w \in SingleWorkers : SendFails(w)
    \/ \E w \in SingleWorkers : ReleaseJob(w)
    \/ \E w \in SingleWorkers : FailedFind(w)
    \/ \E w \in SingleWorkers : FailedUpdate(w)
    \/ \E w \in SingleWorkers : MarkDelivered(w)
    \/ BroadcastEvent
    \/ BroadcastFails

SpecSingle == OutboxInit /\ [][SingleNext]_vars

(***************************************************************************)
(* The worker on the entry of one transfer, with what the queue and its    *)
(* operator can do to a job: hand it out a second time while it is still   *)
(* running (its reservation expired), and `queue:retry all`.  The entry is *)
(* the one the engine wrote, with its job on the queue, or such an entry   *)
(* whose payload lacks a field or is no JSON text; or the store is one    *)
(* DatabaseSeeder leaves behind, which dispatches no job for the rows it   *)
(* writes.  The BroadcastEvent jobs the worker queues are left on their    *)
(* queue here; SpecOutbox and SpecSink run them.                           *)
(***************************************************************************)
\* the values of a transfer of amount from user 1 to user 2 with key 'k1',
\* computed from the initial balances
CallOfAmount(amount) ==
    LET nb == NewBalances(102, 1, amount, TotalDebited(amount))
    IN  [IdleProc EXCEPT !.sender_id = 1, !.receiver_id = 2, !.amount = amount,
                         !.key = "k1", !.commission = Commission(amount),
                         !.total_debited = TotalDebited(amount),
                         !.w_users = (1 :> nb.sender) @@ (2 :> nb.receiver)]

\* the call transfer(1, 2, 50, 'k1') at its commit
SeededCall == CallOfAmount(50)

\* a transaction DatabaseSeeder draws that its sender cannot pay: amount 200
\* and commission 3 against the balance 102
SeededUnaffordable == CallOfAmount(200)

DropField(payload, f) == [g \in DOMAIN payload \ {f} |-> payload[g]]

\* the payload DatabaseSeeder writes for a completed transaction: no
\* transaction_uuid, and the balances under other names
SeederPayload(payload) ==
    [sender_id |-> payload.sender_id, receiver_id |-> payload.receiver_id,
     amount |-> payload.amount, commission |-> payload.commission,
     sender_new_balance |-> payload.sender_balance,
     receiver_new_balance |-> payload.receiver_balance]

\* the payload DatabaseSeeder writes for a failed transaction
SeederFailedPayload(payload) ==
    [sender_id |-> payload.sender_id, receiver_id |-> payload.receiver_id,
     amount |-> payload.amount, commission |-> payload.commission,
     error |-> "Transaction failed - insufficient funds or validation error"]

PayloadInputs(payload) ==
    {payload, JsonText(DropField(payload, "transaction_uuid")), InvalidJsonText}
        \cup {DropField(payload, f) : f \in RequiredFields}

\* the users rows before and after the transfer of c
UsersBefore == [u \in ExistingUsers |->
                   [balance |-> IF u = 1 THEN 102 ELSE 1,
                    initial_balance |-> IF u = 1 THEN 102 ELSE 1]]

UsersAfter(c) == [u \in ExistingUsers |-> [UsersBefore[u] EXCEPT !.balance = c.w_users[u]]]

\* the store after transfer wrote and committed the rows of c and pushed the
\* job, for each payload the entry is given
EngineStores(c) ==
    {[users |-> UsersAfter(c),
      transactions |-> <<TransactionRow(c, 1)>>,
      balance_snapshots |-> SnapshotRows(c, 1),
      transaction_outbox |-> <<[OutboxRow(c, 1, 1) EXCEPT !.payload = payload]>>,
      jobs |-> <<1>>] : payload \in PayloadInputs(OutboxRow(c, 1, 1).payload)}

\* DatabaseSeeder::run for one completed transaction: the transactions row
\* is written; when the sender can afford it ($senderNewBalance >= 0) the
\* balances are updated and two snapshots and one outbox row are written
\* (delivered, pending or failed, attempts 0 to 3), otherwise nothing else is
\* written; no job is dispatched
SeederCompletedStores(c) ==
    IF c.w_users[c.sender_id] >= 0
    THEN {[users |-> UsersAfter(c),
           transactions |-> <<TransactionRow(c, 1)>>,
           balance_snapshots |-> SnapshotRows(c, 1),
           transaction_outbox |->
               <<[OutboxRow(c, 1, 1) EXCEPT
                     !.event_type = "money_transferred",
                     !.payload = JsonText(SeederPayload(@)),
                     !.status = status,
                     !.attempts = attempts,
                     !.delivered_at = IF status = "delivered" THEN "createdAt"
                                      ELSE "null",
                     !.last_attempted_at =
                         IF status = "failed" \/ (status = "pending" /\ attempts > 0)
                         THEN "createdAt" ELSE "null",
                     !.error = IF status = "failed" THEN "Pusher connection timeout"
                               ELSE "null"]>>,
           jobs |-> <<>>] : status \in {"delivered", "pending", "failed"},
                            attempts \in 0..3}
    ELSE {[users |-> UsersBefore,
           transactions |-> <<TransactionRow(c, 1)>>,
           balance_snapshots |-> <<>>,
           transaction_outbox |-> <<>>,
           jobs |-> <<>>]}

\* DatabaseSeeder::run for one failed transaction: no balance changes, no
\* snapshot, an outbox row with status failed and attempts 1 to 3
SeederFailedStores(c) ==
    {[users |-> UsersBefore,
      transactions |-> <<[TransactionRow(c, 1) EXCEPT !.status = "failed"]>>,
      balance_snapshots |-> <<>>,
      transaction_outbox |->
          <<[OutboxRow(c, 1, 1) EXCEPT
                !.event_type = "money_transferred",
                !.payload = JsonText(SeederFailedPayload(@)),
                !.status = "failed",
                !.attempts = attempts,
                !.last_attempted_at = "createdAt",
                !.error = "Transaction validation failed"]>>,
      jobs |-> <<>>] : attempts \in 1..3}

WorkerInit ==
    /\ clock = 0
    /\ locking = "gaps"
    /\ \E store \in EngineStores(SeededCall) \cup SeederCompletedStores(SeededCall)
                          \cup SeederCompletedStores(SeededUnaffordable)
                          \cup SeederFailedStores(SeededCall) :
           /\ users = store.users
           /\ transactions = store.transactions
           /\ balance_snapshots = store.balance_snapshots
           /\ transaction_outbox = store.transaction_outbox
           /\ jobs = store.jobs
    /\ locks = [u \in ExistingUsers |-> 0]
    /\ proc = [p \in Procs |-> IdleProc]
    /\ returned = <<>>
    /\ pre_balances = <<>>
    /\ calcAmount = <<>>
    /\ calcBalance = <<>>
    /\ calcResult = [outcome |-> "none"]
    /\ worker = [w \in Workers |-> IdleWorker]
    /\ job_attempts = <<>>
    /\ failed_jobs = {}
    /\ broadcasts = <<>>
    /\ emitted = {}
    /\ pushed = <<>>
    /\ variant \in WorkerVariants
    /\ sink = "up"
    /\ session = ClosedSession
    /\ responses = <<>>
    /\ request = [p \in Procs |-> IdleRequest]
    /\ stats = IdleStats

QueuedJobs == {jobs[k] : k \in 1..Len(jobs)}

\* The reservation of the job worker w is running expires: the queue makes
\* the job visible again while attempts remain, and another worker can pick
\* it up.
Redeliver(w) ==
    /\ worker[w].pc \in {"handle", "mark", "send", "update"}
    /\ JobAttempts(worker[w].outbox_id) < Tries
    /\ worker[w].outbox_id \notin QueuedJobs
    /\ jobs' = Append(jobs, worker[w].outbox_id)
    /\ UNCHANGED <<storeVars, locks, proc, returned, pre_balances, calcVars,
                   workerVars, edgeVars>>

MaxRetriedAttempts == 5

RECURSIVE SetToSeq(_)
SetToSeq(S) ==
    IF S = {} THEN <<>>
    ELSE LET m == CHOOSE x \in S : \A y \in S : x <= y
         IN  <<m>> \o SetToSeq(S \ {m})

\* php artisan queue:retry all: every failed job is pushed onto its queue
\* again as a new job, with no attempts counted
RetryFailedJobs ==
    /\ failed_jobs # {}
    /\ \A k \in 1..Len(transaction_outbox) :
           transaction_outbox[k].attempts <= MaxRetriedAttempts
    /\ jobs' = jobs \o SetToSeq(failed_jobs)
    /\ job_attempts' = [id \in DOMAIN job_attempts |->
                            IF id \in failed_jobs THEN 0 ELSE job_attempts[id]]
    /\ failed_jobs' = {}
    /\ UNCHANGED <<storeVars, locks, proc, returned, pre_balances, calcVars,
                   worker, broadcasts, emitted, pushed, variant, edgeVars>>

WorkerNext ==
    \/ \E w \in Workers : Pop(w)
    \/ \E w \in Workers : Handle(w)
    \/ \E w \in Workers : MarkAsFailed(w)
    \/ \E w \in Workers : Send(w)
    \/ \E w \in Workers : SendFails(w)
    \/ \E w \in Workers : ReleaseJob(w)
    \/ \E w \in Workers : FailedFind(w)
    \/ \E w \in Workers : FailedUpdate(w)
    \/ \E w \in Workers : MarkDelivered(w)
    \/ \E w \in Workers : Redeliver(w)
    \/ RetryFailedJobs

SpecWorker == WorkerInit /\ [][WorkerNext]_vars

(***************************************************************************)
(* Transfers and the worker while the push sink goes down and comes back.  *)
(* $pusher->trigger needs the sink; MoneyReceived::dispatch hands the      *)
(* event to the broadcaster, which needs the sink when it broadcasts at    *)
(* once and only its queue when it queues the broadcast.                   *)
(***************************************************************************)
SinkInputs == {<<<<1, 2>>, 50, "k1">>}

SinkFails ==
    /\ sink = "up"
    /\ sink' = "down"
    /\ UNCHANGED <<storeVars, jobs, locks, proc, returned, pre_balances, calcVars,
                   workerVars, responses, clock, session, request, stats, locking>>

SinkRecovers ==
    /\ sink = "down"
    /\ sink' = "up"
    /\ UNCHANGED <<storeVars, jobs, locks, proc, returned, pre_balances, calcVars,
                   workerVars, responses, clock, session, request, stats, locking>>

SinkSend(w) == (sink = "up" \/ variant = "event") /\ Send(w)

SinkSendFails(w) == sink = "down" /\ SendFails(w)

SinkBroadcastEvent == sink = "up" /\ BroadcastEvent

SinkBroadcastFails == sink = "down" /\ BroadcastFails

SinkInit == OutboxInit

SinkNext ==
    \/ \E p \in Procs, in \in SinkInputs :
           Transfer(p, in[1][1], in[1][2], in[2], in[3])
    \/ \E p \in Procs : BeginAttempt(p)
    \/ \E p \in Procs : PairLockUsers(p)
    \/ \E p \in Procs : UpdateBalances(p)
    \/ \E p \in Procs : PairInsertRows(p)
    \/ \E p \in Procs : Commit(p)
    \/ \E p \in Procs : AfterCommit(p)
    \/ \E w \in Workers : Pop(w)
    \/ \E w \in Workers : Handle(w)
    \/ \E w \in Workers : SinkSend(w)
    \/ \E w \in Workers : SinkSendFails(w)
    \/ \E w \in Workers : ReleaseJob(w)
    \/ \E w \in Workers : FailedFind(w)
    \/ \E w \in Workers : FailedUpdate(w)
    \/ \E w \in Workers : MarkDelivered(w)
    \/ SinkBroadcastEvent
    \/ SinkBroadcastFails
    \/ SinkFails
    \/ SinkRecovers

SpecSink == SinkInit /\ [][SinkNext]_vars

\* Calls and jobs are run to their end; nothing is assumed about the sink.
SinkFairness ==
    /\ \A p \in Procs :
           /\ WF_vars(BeginAttempt(p))
           /\ WF_vars(PairLockUsers(p))
           /\ WF_vars(UpdateBalances(p))
           /\ WF_vars(PairInsertRows(p))
           /\ WF_vars(Commit(p))
           /\ WF_vars(AfterCommit(p))
    /\ \A w \in Workers :
           /\ WF_vars(Pop(w))
           /\ WF_vars(Handle(w))
           /\ WF_vars(SinkSend(w) \/ SinkSendFails(w))
           /\ WF_vars(ReleaseJob(w))
           /\ WF_vars(FailedFind(w))
           /\ WF_vars(FailedUpdate(w))
           /\ WF_vars(MarkDelivered(w))
    /\ WF_vars(SinkBroadcastEvent \/ SinkBroadcastFails)

FairSpecSink == SpecSink /\ SinkFairness

(***************************************************************************)
(* The open client session of a user next to the engine and the two queue *)
(* workers: the layout subscribes to the user's private channel when it is *)
(* mounted and its callback writes the event's new_balance into the store; *)
(* the dashboard and the transfer view reload the user with fetchUser; the *)
(* user can log out, log in again, register and load the page anew.  The   *)
(* push sink and the queue can be reached throughout.                      *)
(***************************************************************************)
ClientInputs ==
    {<<<<1, 2>>, 50, "k1">>, <<<<1, 2>>, 1, "k2">>, <<<<2, 1>>, 1, "k3">>}

\* the user whose session is followed
ClientUser == 2

\* the calls a session makes of the transfer view's fetchUser, the Logout
\* button and a reload of the page, together
MaxSessionCalls == 2

\* the transfers beside the session are called one after the other
ClientProcs == {1}

\* response.user of login and of getUser, and the user in localStorage
UserResponse(user_id) == [id |-> user_id, balance |-> users[user_id].balance]

\* authApi.getUser() is sent with the store's token and the server reads the
\* users row of the token's user; the response is on its way (seen: the
\* ledger rows committed at that read)
GetUser(token) ==
    [id |-> token, balance |-> users[token].balance, seen |-> Len(transactions)]

\* a sequence without its i-th element
Without(seq, i) == SubSeq(seq, 1, i - 1) \o SubSeq(seq, i + 1, Len(seq))

\* the session of user_id with the layout mounted: the store and localStorage
\* hold the token and the user the login loaded, the listener is bound to the
\* user's channel, the connection is up, no event has arrived and the
\* dashboard's fetchUser is done
OpenSession(user_id, balance) ==
    [ClosedSession EXCEPT !.user_id = user_id, !.balance = balance,
                          !.token = user_id,
                          !.stored = <<[id |-> user_id, balance |-> balance]>>,
                          !.layout = TRUE,
                          !.channel = user_id, !.connected = TRUE]

RECURSIVE Join(_, _)
\* the parts of a name put together with sep between them
Join(parts, sep) ==
    IF parts = <<>> THEN ""
    ELSE IF Len(parts) = 1 THEN parts[1]
    ELSE parts[1] \o sep \o Join(Tail(parts), sep)

\* the name a listener given to Echo's listen() is bound to, for an event
\* name given by its dot-separated parts (a leading dot gives a first part
\* ""): a name with a leading dot is taken without it, any other name gets the
\* namespace App.Events in front and its dots replaced by backslashes
EchoFormat(parts) ==
    IF Head(parts) = "" THEN Join(Tail(parts), ".")
    ELSE Join(<<"App", "Events">> \o parts, "\\")

\* .listen('money.received', ...)
ListenerName == EchoFormat(<<"money", "received">>)

\* the callback of subscribeToUserChannel: authStore.user.balance = new_balance
OnEvent(balance, event) == event.new_balance

\* The push sink hands the next published event to the connection of the
\* mounted layout; the callback is called for an event on the channel the
\* listener is bound to whose name is the one the listener is bound to.  With
\* no user in the store the assignment of the callback throws and nothing is
\* written.
OnMoneyReceived ==
    /\ session.channel # 0
    /\ session.connected
    /\ session.handled < Len(pushed)
    /\ LET event == pushed[session.handled + 1]
       IN  session' =
               [session EXCEPT
                   !.handled = @ + 1,
                   !.balance = IF /\ event.channel = <<"private-user", session.channel>>
                                   /\ event.name = ListenerName
                                   /\ session.user_id # 0
                                THEN OnEvent(@, event) ELSE @]
    /\ UNCHANGED <<storeVars, jobs, locks, proc, returned, pre_balances, calcVars,
                   workerVars, sink, locking, responses, clock, request, stats>>

\* An event is published while no connection of the session is up: it is not
\* kept for the session.
EventMissed ==
    /\ ~session.connected
    /\ session.handled < Len(pushed)
    /\ session' = [session EXCEPT !.handled = @ + 1, !.missed = @ + 1]
    /\ UNCHANGED <<storeVars, jobs, locks, proc, returned, pre_balances, calcVars,
                   workerVars, sink, locking, responses, clock, request, stats>>

\* the connection of the mounted layout goes down ('disconnected')
PusherDisconnected ==
    /\ session.channel # 0
    /\ session.connected
    /\ session' = [session EXCEPT !.connected = FALSE]
    /\ UNCHANGED <<storeVars, jobs, locks, proc, returned, pre_balances, calcVars,
                   workerVars, sink, locking, responses, clock, request, stats>>

\* the connection of the mounted layout is up ('connected')
PusherConnected ==
    /\ session.channel # 0
    /\ ~session.connected
    /\ session' = [session EXCEPT !.connected = TRUE]
    /\ UNCHANGED <<storeVars, jobs, locks, proc, returned, pre_balances, calcVars,
                   workerVars, sink, locking, responses, clock, request, stats>>

\* fetchUser of the transfer view of the mounted layout, after a transfer of
\* the session's user; it returns at once without a token, else getUser is
\* sent
FetchUser ==
    /\ session.layout
    /\ session.token # 0
    /\ session.calls < MaxSessionCalls
    /\ session' = [session EXCEPT
                       !.calls = @ + 1,
                       !.pending = Append(@, GetUser(session.token))]
    /\ UNCHANGED <<storeVars, jobs, locks, proc, returned, pre_balances, calcVars,
                   workerVars, sink, locking, responses, clock, request, stats>>

\* the await of a fetchUser returns: user.value = response.user, and the user
\* is written to localStorage
FetchUserAssign ==
    /\ \E i \in 1..Len(session.pending) :
           session' = [session EXCEPT
                           !.user_id = session.pending[i].id,
                           !.balance = session.pending[i].balance,
                           !.seen = session.pending[i].seen,
                           !.stored = <<[id |-> session.pending[i].id,
                                         balance |-> session.pending[i].balance]>>,
                           !.pending = Without(@, i)]
    /\ UNCHANGED <<storeVars, jobs, locks, proc, returned, pre_balances, calcVars,
                   workerVars, sink, locking, responses, clock, request, stats>>

\* the request of a fetchUser fails: the catch block calls logout(), which
\* awaits authApi.logout()
FetchUserFails ==
    /\ \E i \in 1..Len(session.pending) :
           session' = [session EXCEPT !.pending = Without(@, i),
                                      !.logout["fetchUser"] = @ + 1]
    /\ UNCHANGED <<storeVars, jobs, locks, proc, returned, pre_balances, calcVars,
                   workerVars, sink, locking, responses, clock, request, stats>>

\* the Logout button of the mounted layout: handleLogout calls logout(), which
\* awaits authApi.logout()
HandleLogout ==
    /\ session.layout
    /\ session.logout["handleLogout"] = 0 /\ session.logout["push"] = 0
    /\ session.calls < MaxSessionCalls
    /\ session' = [session EXCEPT !.calls = @ + 1,
                                  !.logout["handleLogout"] = 1]
    /\ UNCHANGED <<storeVars, jobs, locks, proc, returned, pre_balances, calcVars,
                   workerVars, sink, locking, responses, clock, request, stats>>

\* the finally block of logout(), called by caller: token and user are
\* cleared in the store and removed from localStorage; a mounted layout stays
\* mounted, its connection and its listener stay as they are.  handleLogout
\* goes on to router.push('/').
Logout(caller) ==
    /\ caller \in {"fetchUser", "handleLogout"}
    /\ session.logout[caller] > 0
    /\ session' = [session EXCEPT
                       !.token = 0, !.user_id = 0, !.balance = 0,
                       !.stored = <<>>,
                       !.logout = [@ EXCEPT ![caller] = @ - 1,
                                            !["push"] = IF caller = "handleLogout"
                                                        THEN 1 ELSE @]]
    /\ UNCHANGED <<storeVars, jobs, locks, proc, returned, pre_balances, calcVars,
                   workerVars, sink, locking, responses, clock, request, stats>>

\* router.push('/') after the logout of handleLogout: the layout is unmounted
\* and onUnmounted calls disconnect()
Disconnect ==
    /\ session.logout["push"] > 0
    /\ session' = [session EXCEPT !.layout = FALSE, !.channel = 0,
                                  !.connected = FALSE,
                                  !.logout["push"] = 0]
    /\ UNCHANGED <<storeVars, jobs, locks, proc, returned, pre_balances, calcVars,
                   workerVars, sink, locking, responses, clock, request, stats>>

\* login on the login page (no layout mounted, no navigation on its way, no
\* token): authApi.login is sent and the server reads the users row; the
\* response is on its way
Login ==
    /\ ~session.layout /\ session.to = ""
    /\ session.token = 0
    /\ session.login = <<>>
    /\ session' = [session EXCEPT !.login = <<UserResponse(ClientUser)>>]
    /\ UNCHANGED <<storeVars, jobs, locks, proc, returned, pre_balances, calcVars,
                   workerVars, sink, locking, responses, clock, request, stats>>

\* register on the registration page (no layout mounted, no navigation on its
\* way, no token): authApi.register is sent, the server creates the users row
\* of the new user (AuthService::register) and answers like a login; the
\* response is on its way
AuthRegister ==
    /\ ~session.layout /\ session.to = ""
    /\ session.token = 0
    /\ session.login = <<>>
    /\ Cardinality(DOMAIN users) < MaxUsers
    /\ LET id == Cardinality(DOMAIN users) + 1
       IN  /\ users' = users @@ (id :> [balance |-> INITIAL_BALANCE,
                                        initial_balance |-> INITIAL_BALANCE])
           /\ locks' = locks @@ (id :> 0)
           /\ session' = [session EXCEPT
                              !.login = <<[id |-> id, balance |-> INITIAL_BALANCE]>>]
    /\ UNCHANGED <<transactions, balance_snapshots, transaction_outbox, jobs, proc,
                   returned, pre_balances, calcVars, workerVars, sink, locking,
                   responses, clock, request, stats>>

\* the await of login or of register returns: token and user are stored, also
\* in localStorage; the page goes on to router.push('/dashboard') and the
\* router's guard lets the navigation pass (token and user are set).  The
\* page shown stays as it is until the dashboard's component is loaded.
LoginAssign ==
    /\ session.login # <<>>
    /\ session' = [session EXCEPT !.token = session.login[1].id,
                                  !.user_id = session.login[1].id,
                                  !.balance = session.login[1].balance,
                                  !.stored = session.login,
                                  !.login = <<>>,
                                  !.to = "dashboard"]
    /\ UNCHANGED <<storeVars, jobs, locks, proc, returned, pre_balances, calcVars,
                   workerVars, sink, locking, responses, clock, request, stats>>

\* The component of the route the navigation goes to is loaded: the layout and
\* the view are mounted.  onMounted of the layout subscribes to the channel
\* of the user the store holds at this moment, over a new connection, and
\* binds nothing when the store holds no user; onMounted of the dashboard
\* calls fetchUser, which sends getUser when the store holds a token.
OnMounted ==
    /\ session.to # ""
    /\ session' = [session EXCEPT
                       !.to = "",
                       !.layout = TRUE,
                       !.channel = session.user_id,
                       !.connected = FALSE,
                       !.pending = IF session.to = "dashboard" /\ session.token # 0
                                   THEN Append(@, GetUser(session.token)) ELSE @]
    /\ UNCHANGED <<storeVars, jobs, locks, proc, returned, pre_balances, calcVars,
                   workerVars, sink, locking, responses, clock, request, stats>>

\* The page is loaded anew, at /dashboard or at /transfer: the store starts
\* with the token of localStorage and no user, the requests on their way are
\* gone with the old page, and the router's guard calls initialize(), which
\* takes the user from localStorage when there is a token.  The navigation
\* of an authenticated session passes the guard; any other session is routed
\* to the login page.
Initialize ==
    /\ session.calls < MaxSessionCalls
    /\ LET restored == session.stored # <<>> /\ session.token # 0
       IN  \E to \in {"dashboard", "transfer"} :
               session' =
                   [session EXCEPT
                       !.calls = @ + 1,
                       !.user_id = IF restored THEN session.stored[1].id ELSE 0,
                       !.balance = IF restored THEN session.stored[1].balance ELSE 0,
                       !.pending = <<>>, !.login = <<>>, !.logout = NoLogout,
                       !.layout = FALSE, !.channel = 0, !.connected = FALSE,
                       !.to = IF restored THEN to ELSE ""]
    /\ UNCHANGED <<storeVars, jobs, locks, proc, returned, pre_balances, calcVars,
                   workerVars, sink, locking, responses, clock, request, stats>>

ClientInit ==
    /\ clock = 0
    /\ locking = "gaps"
    /\ users = (1 :> [balance |-> 102, initial_balance |-> 102])
                 @@ (2 :> [balance |-> 1, initial_balance |-> 1])
    /\ session = OpenSession(ClientUser, users[ClientUser].balance)
    /\ transactions = <<>>
    /\ balance_snapshots = <<>>
    /\ transaction_outbox = <<>>
    /\ jobs = <<>>
    /\ locks = [u \in ExistingUsers |-> 0]
    /\ proc = [p \in Procs |-> IdleProc]
    /\ returned = <<>>
    /\ pre_balances = <<>>
    /\ calcAmount = <<>>
    /\ calcBalance = <<>>
    /\ calcResult = [outcome |-> "none"]
    /\ worker = [w \in Workers |-> IdleWorker]
    /\ job_attempts = <<>>
    /\ failed_jobs = {}
    /\ broadcasts = <<>>
    /\ emitted = {}
    /\ pushed = <<>>
    /\ variant = "event"
    /\ sink = "up"
    /\ responses = <<>>
    /\ request = [p \in Procs |-> IdleRequest]
    /\ stats = IdleStats

ClientNext ==
    \/ \E p \in ClientProcs, in \in ClientInputs :
           Transfer(p, in[1][1], in[1][2], in[2], in[3])
    \/ \E p \in ClientProcs : BeginAttempt(p)
    \/ \E p \in ClientProcs : PairLockUsers(p)
    \/ \E p \in ClientProcs : UpdateBalances(p)
    \/ \E p \in ClientProcs : PairInsertRows(p)
    \/ \E p \in ClientProcs : Commit(p)
    \/ \E p \in ClientProcs : AfterCommit(p)
    \/ \E w \in Workers : Pop(w)
    \/ \E w \in Workers : Handle(w)
    \/ \E w \in Workers : Send(w)
    \/ \E w \in Workers : MarkDelivered(w)
    \/ BroadcastEvent
    \/ OnMoneyReceived
    \/ EventMissed
    \/ PusherDisconnected
    \/ PusherConnected
    \/ FetchUser
    \/ FetchUserAssign
    \/ FetchUserFails
    \/ HandleLogout
    \/ \E caller \in {"fetchUser", "handleLogout"} : Logout(caller)
    \/ Disconnect
    \/ Login
    \/ AuthRegister
    \/ LoginAssign
    \/ OnMounted
    \/ Initialize

SpecClient == ClientInit /\ [][ClientNext]_vars

(***************************************************************************)
(* POST /api/transactions: TransferRequest, TransactionController::store   *)
(* and the transfer it calls, for requests that arrive one after another.  *)
(***************************************************************************)
MaxRequests == 3

MaxClock == 1

\* (sender_id of the caller, id of the user of receiver_email, amount,
\* Idempotency-Key header) of the requests made
ApiInputs ==
    {<<1, 2, 50, "k1">>, <<1, 2, 1, "k2">>, <<2, 1, 1, "k3">>, <<1, 2, 200, "k4">>,
     <<1, 1, 1, "k5">>, <<1, 2, 0, "k6">>, <<1, 3, 1, "k7">>}

\* TransferRequest: rules() and withValidator(); "ok" when validation passes
TransferRequest(sender_id, receiver_id, amount) ==
    IF receiver_id \notin DOMAIN users THEN "receiver_email.exists"
    ELSE IF amount < 1 THEN "amount.min"
    ELSE IF receiver_id = sender_id THEN "receiver_email.self"
    ELSE "ok"

\* the 201 response of store: the transaction and the reloaded users
SuccessResponse(p, req, t, sender_balance, receiver_balance) ==
    [caller |-> p, request |-> req, status |-> 201, uuid |-> t.uuid,
     amount |-> t.amount, commission |-> t.commission,
     total_debited |-> t.amount + t.commission,
     sender_balance |-> sender_balance, receiver_balance |-> receiver_balance,
     created_at |-> t.created_at]

ErrorResponse(p, req, status, message) ==
    [caller |-> p, request |-> req, status |-> status, message |-> message]

\* the Idempotency-Key header of a request that carries none
NoHeader == "(no header)"

\* now()->toIso8601String(): the date and time to the second
toIso8601String(seconds) == "T" \o ToString(seconds) \o "+00:00"

\* hash('sha256', implode('|', [...])): the digest stands for its input
generateIdempotencyKey(sender_id, receiver_id, amount, timestamp) ==
    "sha256(" \o ToString(sender_id) \o "|" \o ToString(receiver_id) \o "|"
              \o ToString(amount) \o "|" \o timestamp \o ")"

\* $request->header('Idempotency-Key') ?? generateIdempotencyKey(...)
IdempotencyKey(header, sender_id, receiver_id, amount) ==
    IF header # NoHeader THEN header
    ELSE generateIdempotencyKey(sender_id, receiver_id, amount, toIso8601String(clock))

\* the calls of transfer request process p made that returned or threw
ReturnsOf(p) == {i \in 1..Len(returned) : returned[i].caller = p}

\* the responses store gave to request process p after a call of transfer
AnswersOf(p) ==
    {i \in 1..Len(responses) :
        /\ "caller" \in DOMAIN responses[i]
        /\ responses[i].caller = p
        /\ responses[i].status # 422}

\* transfer has returned to store, or thrown, and store has not answered yet
Owed(p) ==
    /\ proc[p].pc = "idle"
    /\ Cardinality(ReturnsOf(p)) > Cardinality(AnswersOf(p))

\* what the call of request process p returned or threw
LastReturn(p) ==
    returned[CHOOSE i \in ReturnsOf(p) : \A j \in ReturnsOf(p) : j <= i]

\* the requests answered and those under way
RequestsMade ==
    Len(responses) + Cardinality({p \in Procs : proc[p].pc # "idle" \/ Owed(p)})

\* the request as store passes it to transfer
RequestOf(r) == <<r.sender_id, r.receiver_id, r.amount, r.key>>

\* store up to its call of transfer: a request that fails TransferRequest is
\* answered 422; otherwise the key is taken from the header or derived, and
\* transfer is called.
StoreCall(p, sender_id, receiver_id, amount, header) ==
    /\ proc[p].pc = "idle"
    /\ ~Owed(p)
    /\ LET rules == TransferRequest(sender_id, receiver_id, amount)
       IN  IF rules # "ok"
           THEN /\ responses' =
                       Append(responses,
                              ErrorResponse(p, <<sender_id, receiver_id, amount, header>>,
                                            422, rules))
                /\ UNCHANGED <<storeVars, jobs, locks, proc, returned, pre_balances,
                               calcVars, workerVars, session, sink, locking, clock, request,
                               stats>>
           ELSE TransferCall(p, sender_id, receiver_id, amount,
                             IdempotencyKey(header, sender_id, receiver_id, amount))

\* transfer threw: the catch block of store answers 400 with the message
StoreCatch(p) ==
    /\ Owed(p)
    /\ LastReturn(p).outcome # "ok"
    /\ responses' = Append(responses,
                           ErrorResponse(p, RequestOf(LastReturn(p)), 400,
                                         LastReturn(p).outcome))
    /\ UNCHANGED <<storeVars, jobs, locks, proc, returned, pre_balances, calcVars,
                   workerVars, session, sink, locking, clock, request, stats>>

\* transfer returned: $transaction->refresh() and $sender->refresh() read the
\* rows again (the transactions row does not change once it is committed, so
\* its reload is taken together with the sender's)
StoreRefreshSender(p) ==
    /\ Owed(p)
    /\ LastReturn(p).outcome = "ok"
    /\ request[p].pc = "idle"
    /\ request' = [request EXCEPT ![p] =
           [pc |-> "refreshed",
            sender_balance |-> users[LastReturn(p).sender_id].balance]]
    /\ UNCHANGED <<storeVars, jobs, locks, proc, returned, pre_balances, calcVars,
                   workerVars, session, sink, locking, clock, responses, stats>>

\* $receiver->refresh() and the 201 response
StoreRespond(p) ==
    /\ request[p].pc = "refreshed"
    /\ LET r == LastReturn(p)
           t == SelectSeq(transactions, LAMBDA row : row.uuid = r.uuid)[1]
       IN  responses' =
               Append(responses,
                      SuccessResponse(p, RequestOf(r), t, request[p].sender_balance,
                                      users[r.receiver_id].balance))
    /\ request' = [request EXCEPT ![p] = IdleRequest]
    /\ UNCHANGED <<storeVars, jobs, locks, proc, returned, pre_balances, calcVars,
                   workerVars, session, sink, locking, clock, stats>>

\* a second passes
Tick ==
    /\ clock < MaxClock
    /\ clock' = clock + 1
    /\ UNCHANGED <<storeVars, jobs, locks, proc, returned, pre_balances, calcVars,
                   workerVars, session, sink, locking, responses, request, stats>>

ApiInit == Init

ApiNext ==
    \/ \E p \in Procs, in \in ApiInputs :
           RequestsMade < MaxRequests /\ StoreCall(p, in[1], in[2], in[3], in[4])
    \/ \E p \in Procs : BeginAttempt(p)
    \/ \E p \in Procs : PairLockUsers(p)
    \/ \E p \in Procs : UpdateBalances(p)
    \/ \E p \in Procs : PairInsertRows(p)
    \/ \E p \in Procs : Commit(p)
    \/ \E p \in Procs : AfterCommit(p)
    \/ \E p \in Procs : StoreCatch(p)
    \/ \E p \in Procs : StoreRefreshSender(p)
    \/ \E p \in Procs : StoreRespond(p)
    \/ Tick

SpecApi == ApiInit /\ [][ApiNext]_vars

(***************************************************************************)
(* Requests to POST /api/transactions that run at the same time, with and  *)
(* without the Idempotency-Key header: store computes the key and calls    *)
(* transfer, whose steps interleave with those of the other request.       *)
(***************************************************************************)
\* (caller, receiver, amount, Idempotency-Key header) of the requests made
KeyInputs ==
    {<<1, 2, 1, NoHeader>>, <<1, 2, 1, "k1">>, <<1, 2, 50, NoHeader>>,
     <<2, 1, 1, NoHeader>>}

KeyNext ==
    \/ \E p \in Procs, in \in KeyInputs :
           /\ Len(returned) + ActiveCalls < MaxCalls
           /\ StoreCall(p, in[1], in[2], in[3], in[4])
    \/ \E p \in Procs : BeginAttempt(p)
    \/ \E p \in Procs : LockUsers(p)
    \/ \E p \in Procs : UpdateBalances(p)
    \/ \E p \in Procs : InsertRows(p)
    \/ \E p \in Procs : Commit(p)
    \/ \E p \in Procs : AfterCommit(p)
    \/ \E p \in Procs : StoreDeadlock(p)
    \/ \E p \in Procs : StoreCatch(p)
    \/ \E p \in Procs : StoreRefreshSender(p)
    \/ \E p \in Procs : StoreRespond(p)
    \/ Tick

SpecKey == Init /\ [][KeyNext]_vars

(***************************************************************************)
(* The read endpoints of TransactionController (show, index) over the      *)
(* ledger that transfer writes; three users are registered.                *)
(***************************************************************************)
ReadUsers == {1, 2, 3}

MaxReads == 2

\* the transfers requested: (caller, receiver, amount, Idempotency-Key)
ReadInputs == {<<1, 2, 50, "k1">>, <<2, 1, 1, "k2">>}

\* the query values of ?direction= that callers send; "none" is no parameter
Directions == {"none", "all", "sent", "received", "in", "out"}

\* TransactionRepository::findByUuid: <<row>>, or <<>> for null
findByUuid(uuid) == SelectSeq(transactions, LAMBDA t : t.uuid = uuid)

\* show: the 404 for a uuid without a row
NotFoundResponse ==
    [status |-> 404, body |-> [status |-> "error", message |-> "Transaction not found"]]

ForbiddenResponse ==
    [status |-> 403, body |-> [status |-> "error", message |-> "Forbidden"]]

\* show: the 404 for a transaction the caller is no party of
NotVisibleResponse ==
    [status |-> 404, body |-> [status |-> "error", message |-> "Transaction not found"]]

\* what the framework answers when the handler throws
ServerErrorResponse ==
    [status |-> 500, body |-> [status |-> "error", message |-> "Server Error"]]

\* the columns of the transactions table a loaded model has attributes for;
\* any other attribute of the model reads as null
TransactionColumns ==
    {"uuid", "sender_id", "receiver_id", "amount", "commission", "status",
     "idempotency_key", "metadata", "created_at", "completed_at"}

\* show: the 200 detail; ->toIso8601String() on an attribute that is null
\* throws
DetailResponse(t, user_id) ==
    IF "created_at" \notin TransactionColumns \/ "updated_at" \notin TransactionColumns
    THEN ServerErrorResponse
    ELSE [status |-> 200,
          body |-> [status |-> "success", uuid |-> t.uuid,
                    direction |-> IF t.sender_id = user_id THEN "out" ELSE "in",
                    sender |-> t.sender_id, receiver |-> t.receiver_id,
                    amount |-> t.amount, commission |-> t.commission,
                    total_debited |-> t.amount + t.commission,
                    transaction_status |-> t.status, created_at |-> t.created_at]]

\* TransactionController::show for the authenticated user_id
ShowResponse(user_id, uuid) ==
    LET found == findByUuid(uuid)
    IN  IF found = <<>> THEN NotFoundResponse
        ELSE IF found[1].sender_id # user_id /\ found[1].receiver_id # user_id
        THEN NotVisibleResponse
        ELSE DetailResponse(found[1], user_id)

\* GET /api/transactions/{uuid} of the authenticated user_id is answered;
\* the history keeps, with the response, the request and the row
\* findByUuid returned for it (found)
Show(user_id, uuid) ==
    /\ Len(responses) < MaxReads
    /\ responses' = Append(responses,
                           [op |-> "show", user_id |-> user_id, uuid |-> uuid,
                            found |-> findByUuid(uuid)]
                               @@ ShowResponse(user_id, uuid))
    /\ UNCHANGED <<storeVars, jobs, locks, proc, returned, pre_balances, calcVars,
                   workerVars, session, sink, locking, clock, request, stats>>

\* getPaginatedForUser: the where clause
MatchesDirection(t, userId, direction) ==
    IF direction = "in" THEN t.receiver_id = userId
    ELSE IF direction = "out" THEN t.sender_id = userId
    ELSE t.sender_id = userId \/ t.receiver_id = userId

\* getPaginatedForUser: the orders the store may return the matching rows in
\* under orderBy('created_at', 'desc'); rows of one second come in any order
OrderedByCreatedAtDesc(rows) ==
    {order \in [1..Cardinality(rows) -> rows] :
        /\ \A i, j \in DOMAIN order : i # j => order[i] # order[j]
        /\ \A i, j \in DOMAIN order :
               i < j => order[i].created_at >= order[j].created_at}

getPaginatedForUser(userId, perPage, direction) ==
    LET rows == {transactions[k] : k \in {n \in DOMAIN transactions :
                     MatchesDirection(transactions[n], userId, direction)}}
    IN  {SubSeq(order, 1, IF Len(order) < perPage THEN Len(order) ELSE perPage) :
            order \in OrderedByCreatedAtDesc(rows)}

\* TransactionController::index for the authenticated user_id, first page of
\* the default size
Index(user_id, query) ==
    /\ Len(responses) < MaxReads
    /\ LET direction == IF query = "none" THEN "all" ELSE query
       IN  \E items \in getPaginatedForUser(user_id, 20,
                              IF direction # "all" THEN direction ELSE "null") :
               responses' = Append(responses,
                                   [op |-> "index", user_id |-> user_id,
                                    direction |-> query, status |-> 200,
                                    data |-> items])
    /\ UNCHANGED <<storeVars, jobs, locks, proc, returned, pre_balances, calcVars,
                   workerVars, session, sink, locking, clock, request, stats>>

ReadInit ==
    /\ clock = 0
    /\ locking = "rows"
    /\ users = [u \in ReadUsers |->
                   IF u = 1 THEN [balance |-> 102, initial_balance |-> 102]
                   ELSE [balance |-> 1, initial_balance |-> 1]]
    /\ transactions = <<>>
    /\ balance_snapshots = <<>>
    /\ transaction_outbox = <<>>
    /\ jobs = <<>>
    /\ locks = [u \in ReadUsers |-> 0]
    /\ proc = [p \in Procs |-> IdleProc]
    /\ returned = <<>>
    /\ pre_balances = <<>>
    /\ calcAmount = <<>>
    /\ calcBalance = <<>>
    /\ calcResult = [outcome |-> "none"]
    /\ worker = [w \in Workers |-> IdleWorker]
    /\ job_attempts = <<>>
    /\ failed_jobs = {}
    /\ broadcasts = <<>>
    /\ emitted = {}
    /\ pushed = <<>>
    /\ variant = "event"
    /\ sink = "up"
    /\ session = ClosedSession
    /\ responses = <<>>
    /\ request = [p \in Procs |-> IdleRequest]
    /\ stats = IdleStats

ReadNext ==
    \/ \E p \in Procs, in \in ReadInputs : Transfer(p, in[1], in[2], in[3], in[4])
    \/ \E p \in Procs : BeginAttempt(p)
    \/ \E p \in Procs : PairLockUsers(p)
    \/ \E p \in Procs : UpdateBalances(p)
    \/ \E p \in Procs : PairInsertRows(p)
    \/ \E p \in Procs : Commit(p)
    \/ \E p \in Procs : AfterCommit(p)
    \/ Tick
    \/ \E user_id \in ReadUsers, uuid \in 1..MaxCalls : Show(user_id, uuid)
    \/ \E user_id \in ReadUsers, query \in Directions : Index(user_id, query)

SpecRead == ReadInit /\ [][ReadNext]_vars

(***************************************************************************)
(* GET /api/transactions/stats next to the transfer engine.  The five      *)
(* queries of getStatsForUser run one after another outside a store        *)
(* transaction, each on the rows committed by then.                        *)
(***************************************************************************)
MaxStatsRequests == 1

countSentByUser(userId) ==
    Len(SelectSeq(transactions, LAMBDA t : t.sender_id = userId))

countReceivedByUser(userId) ==
    Len(SelectSeq(transactions, LAMBDA t : t.receiver_id = userId))

RECURSIVE SumOf(_, _)
\* SUM(column) over rows; Column is one of the operators below
SumOf(rows, column) ==
    IF rows = <<>> THEN 0
    ELSE (IF column = "amount" THEN Head(rows).amount
          ELSE IF column = "commission" THEN Head(rows).commission
          ELSE Head(rows).amount + Head(rows).commission)
           + SumOf(Tail(rows), column)

\* (the sum of the amounts alone)
sumTotalSentWithoutCommission(userId) ==
    SumOf(SelectSeq(transactions, LAMBDA t : t.sender_id = userId), "amount")

\* SUM(amount + commission) of the rows the user sent
sumTotalSentByUser(userId) ==
    SumOf(SelectSeq(transactions, LAMBDA t : t.sender_id = userId), "amount + commission")

sumTotalReceivedByUser(userId) ==
    SumOf(SelectSeq(transactions, LAMBDA t : t.receiver_id = userId), "amount")

sumTotalCommissionByUser(userId) ==
    SumOf(SelectSeq(transactions, LAMBDA t : t.sender_id = userId), "commission")

\* getStatsForUser: its five queries in the order they run
StatsQueries ==
    <<"countSentByUser", "countReceivedByUser", "sumTotalSentByUser",
      "sumTotalReceivedByUser", "sumTotalCommissionByUser">>

RunQuery(query, userId) ==
    CASE query = "countSentByUser" -> countSentByUser(userId)
      [] query = "countReceivedByUser" -> countReceivedByUser(userId)
      [] query = "sumTotalSentByUser" -> sumTotalSentByUser(userId)
      [] query = "sumTotalReceivedByUser" -> sumTotalReceivedByUser(userId)
      [] query = "sumTotalCommissionByUser" -> sumTotalCommissionByUser(userId)

\* getStatsForUser: the array built from the results of the five queries
getStatsForUser(results) ==
    [total_sent |-> results[3],
     total_received |-> results[4],
     total_transactions |-> results[1] + results[2],
     total_commission |-> results[5]]

\* (transfers requested next to the statistics)
StatsInputs ==
    {<<<<1, 2>>, 50, "k1">>, <<<<2, 1>>, 1, "k2">>, <<<<1, 2>>, 1, "k1">>}

\* TransactionController::stats for the authenticated user_id: the request
\* arrives and the first query of getStatsForUser runs
Stats(user_id) ==
    /\ stats.pc = "idle"
    /\ Len(responses) < MaxStatsRequests
    /\ stats' = [pc |-> "query", user_id |-> user_id,
                 results |-> <<RunQuery(StatsQueries[1], user_id)>>,
                 ledger |-> Len(transactions)]
    /\ UNCHANGED <<storeVars, jobs, locks, proc, returned, pre_balances, calcVars,
                   workerVars, session, sink, locking, clock, responses, request>>

\* the next query of getStatsForUser runs, on the rows committed by now
StatsQuery ==
    /\ stats.pc = "query"
    /\ Len(stats.results) + 1 < Len(StatsQueries)
    /\ stats' = [stats EXCEPT !.results =
                     Append(@, RunQuery(StatsQueries[Len(@) + 1], stats.user_id))]
    /\ UNCHANGED <<storeVars, jobs, locks, proc, returned, pre_balances, calcVars,
                   workerVars, session, sink, locking, clock, responses, request>>

\* the last query runs; stats() adds net_balance_change and answers
StatsRespond ==
    /\ stats.pc = "query"
    /\ Len(stats.results) + 1 = Len(StatsQueries)
    /\ LET results == Append(stats.results,
                             RunQuery(StatsQueries[Len(StatsQueries)], stats.user_id))
           data    == getStatsForUser(results)
       IN  responses' =
               Append(responses,
                      [op |-> "stats", user_id |-> stats.user_id, status |-> 200,
                       data |-> data @@ [net_balance_change |->
                                            data.total_received - data.total_sent]])
    /\ stats' = IdleStats
    /\ UNCHANGED <<storeVars, jobs, locks, proc, returned, pre_balances, calcVars,
                   workerVars, session, sink, locking, clock, request>>

StatsNext ==
    \/ \E p \in Procs, in \in StatsInputs :
           Transfer(p, in[1][1], in[1][2], in[2], in[3])
    \/ \E p \in Procs : BeginAttempt(p)
    \/ \E p \in Procs : PairLockUsers(p)
    \/ \E p \in Procs : UpdateBalances(p)
    \/ \E p \in Procs : PairInsertRows(p)
    \/ \E p \in Procs : Commit(p)
    \/ \E p \in Procs : AfterCommit(p)
    \/ \E user_id \in ExistingUsers : Stats(user_id)
    \/ StatsQuery
    \/ StatsRespond

SpecStats == Init /\ [][StatsNext]_vars


(***************************************************************************)
(* The arithmetic of one transfer at the full width of PHP integers: the   *)
(* commission, the total debited, the balance comparison and the debit.    *)
(***************************************************************************)
RECURSIVE BLessFrom(_, _, _)
BLessFrom(x, y, i) ==
    IF i = 0 THEN FALSE
    ELSE IF x[i] # y[i] THEN x[i] < y[i]
    ELSE BLessFrom(x, y, i - 1)

BLess(x, y) ==
    IF Len(x) # Len(y) THEN Len(x) < Len(y) ELSE BLessFrom(x, y, Len(x))

\* x - y for y <= x
RECURSIVE BBorrow(_, _, _, _)
BBorrow(x, y, i, borrow) ==
    IF i > Len(x) THEN <<>>
    ELSE LET v == x[i] - BLimb(y, i) - borrow
         IN  IF v < 0 THEN <<v + LimbBase>> \o BBorrow(x, y, i + 1, 1)
             ELSE <<v>> \o BBorrow(x, y, i + 1, 0)

BSub(x, y) == BNorm(BBorrow(x, y, 1, 0))

ArithSpan == 80

\* 2345624805922200
HugeBase ==
    BAdd(BMul(BFromNat(23456248), BFromNat(100000000)), BFromNat(5922200))

ArithAmounts ==
    {BFromNat(n) : n \in 1..ArithSpan}
        \cup {BFromNat(6600 + n) : n \in 1..ArithSpan}
        \cup {BAdd(HugeBase, BFromNat(n)) : n \in 1..ArithSpan}

\* sender balances at the edge of sufficiency for an amount: one minor unit
\* below, exactly, and one above amount + ceil(amount * 3 / 200)
ArithBalances(amount) ==
    {BSub(t, <<1>>) : t \in {BAdd(d, BFromNat(delta)) :
        d \in {BAdd(amount, ExactCommissionBig(amount))}, delta \in {0, 1, 2}}}

\* lines 126-127, 172 and 177 of transfer, on limb naturals
TransferArithmetic(balance, amount) ==
    LET commission    == CommissionBig(amount)
        total_debited == BAdd(amount, commission)
    IN  IF BLess(balance, total_debited)
        THEN [outcome |-> "insufficient_balance", commission |-> commission,
              total_debited |-> total_debited, sender_balance |-> balance]
        ELSE [outcome |-> "ok", commission |-> commission,
              total_debited |-> total_debited,
              sender_balance |-> BSub(balance, total_debited)]

ArithInit ==
    /\ users = (1 :> [balance |-> 102, initial_balance |-> 102])
                 @@ (2 :> [balance |-> 1, initial_balance |-> 1])
    /\ transactions = <<>>
    /\ balance_snapshots = <<>>
    /\ transaction_outbox = <<>>
    /\ jobs = <<>>
    /\ locks = [u \in ExistingUsers |-> 0]
    /\ proc = [p \in Procs |-> IdleProc]
    /\ returned = <<>>
    /\ pre_balances = <<>>
    /\ calcAmount \in ArithAmounts
    /\ calcBalance \in ArithBalances(calcAmount)
    /\ calcResult = [outcome |-> "none"]
    /\ worker = [w \in Workers |-> IdleWorker]
    /\ job_attempts = <<>>
    /\ failed_jobs = {}
    /\ broadcasts = <<>>
    /\ emitted = {}
    /\ pushed = <<>>
    /\ variant = "event"
    /\ sink = "up"
    /\ session = ClosedSession
    /\ responses = <<>>
    /\ request = [p \in Procs |-> IdleRequest]
    /\ stats = IdleStats
    /\ clock = 0
    /\ locking = "gaps"

ApplyArithmetic ==
    /\ calcResult.outcome = "none"
    /\ calcResult' = TransferArithmetic(calcBalance, calcAmount)
    /\ UNCHANGED <<storeVars, jobs, locks, proc, returned, pre_balances,
                   calcAmount, calcBalance, workerVars, edgeVars>>

ArithNext == ApplyArithmetic

SpecArith == ArithInit /\ [][ArithNext]_vars


(***************************************************************************)
(* Properties of the transfer engine.                                      *)
(***************************************************************************)
RECURSIVE SumCommission(_)
SumCommission(rows) ==
    IF rows = <<>> THEN 0
    ELSE (IF Head(rows).status = "completed" THEN Head(rows).commission ELSE 0)
             + SumCommission(Tail(rows))

RECURSIVE SumBalanceChange(_)
SumBalanceChange(ids) ==
    IF ids = {} THEN 0
    ELSE LET u == CHOOSE v \in ids : TRUE
         IN  (users[u].balance - users[u].initial_balance) + SumBalanceChange(ids \ {u})

RowsOfKey(key) == {i \in 1..Len(transactions) : transactions[i].idempotency_key = key}

SnapshotsOf(uuid) ==
    {i \in 1..Len(balance_snapshots) : balance_snapshots[i].transaction_uuid = uuid}

OutboxOf(uuid) ==
    {i \in 1..Len(transaction_outbox) : transaction_outbox[i].transaction_uuid = uuid}

SameCall(a, b) ==
    /\ a.key = b.key
    /\ a.sender_id = b.sender_id
    /\ a.receiver_id = b.receiver_id
    /\ a.amount = b.amount

\* C1: the sum over all users of (balance - initial_balance) plus the sum of the
\* commission of all completed transactions is 0 in every state of the store,
\* whatever calls succeeded, were rejected, replayed or retried, and however
\* they interleaved.
C1_Conservation ==
    SumBalanceChange(DOMAIN users) + SumCommission(transactions) = 0

\* two transfers committed and one call was rejected or replayed around them
C1_Witness ==
    /\ Len(transactions) = 2
    /\ SumCommission(transactions) > 0

\* C2: every user's balance is >= 0 in every state, in the store and in the
\* writes of every open store transaction, also while transfers debiting the
\* same sender run concurrently.
C2_NonNegativeBalances ==
    /\ \A u \in DOMAIN users : users[u].balance >= 0
    /\ \A p \in Procs : \A u \in DOMAIN proc[p].w_users : proc[p].w_users[u] >= 0

\* two calls debiting user 1 are running, one of them with its debit written
C2_Witness ==
    \E p, q \in Procs :
        /\ p # q
        /\ proc[p].sender_id = 1 /\ proc[q].sender_id = 1
        /\ proc[p].pc = "commit"
        /\ proc[q].pc = "lock"

\* C3: the transactions table never holds two rows with the same
\* idempotency_key.
C3_UniqueIdempotencyKey ==
    \A i, j \in 1..Len(transactions) :
        transactions[i].idempotency_key = transactions[j].idempotency_key => i = j

\* two calls carried the same key past the lookup concurrently; one committed
\* the row and the insert of the other was refused
C3_Witness ==
    \E i \in 1..Len(returned) :
        /\ returned[i].outcome = "duplicate_key"
        /\ Cardinality(RowsOfKey(returned[i].key)) = 1

\* C4: a call that starts after a successful call with the same key, sender,
\* receiver and amount returned, returns successfully the same uuid (whatever
\* the sender's balance is by then), and the step that answers a call from an
\* existing row changes no balance, inserts no transaction, snapshot or outbox
\* row and dispatches no job.
C4_ReplayState ==
    \A i, j \in 1..Len(returned) :
        (/\ i < j
         /\ returned[j].after >= i
         /\ SameCall(returned[i], returned[j])
         /\ returned[i].outcome = "ok")
            => (returned[j].outcome = "ok" /\ returned[j].uuid = returned[i].uuid)

C4_ReplayStep ==
    (/\ Len(returned') = Len(returned) + 1
     /\ returned'[Len(returned')].outcome = "ok"
     /\ proc[returned'[Len(returned')].caller].pc = "begin"
     /\ RowsOfKey(returned'[Len(returned')].key) # {})
        => UNCHANGED <<storeVars, jobs>>

C4_IdempotentReplay == [](C4_ReplayState) /\ [][C4_ReplayStep]_vars

\* the second of two successive identical calls returned the first one's uuid
\* although the sender can no longer afford the transfer
C4_Witness ==
    \E i, j \in 1..Len(returned) :
        /\ i < j
        /\ returned[j].after >= i
        /\ SameCall(returned[i], returned[j])
        /\ returned[i].outcome = "ok"
        /\ returned[j].outcome = "ok"
        /\ users[returned[j].sender_id].balance
               < returned[j].amount + Commission(returned[j].amount)
        /\ Len(transactions) = 1

\* C5 (as claimed): of calls with the same key and the same arguments that run
\* concurrently, every one returns successfully the same uuid, exactly one
\* ledger row exists afterwards and the sender is debited once.
C5_ConcurrentReplay ==
    \A i, j \in 1..Len(returned) :
        (/\ i < j
         /\ returned[j].after < i
         /\ SameCall(returned[i], returned[j])
         /\ returned[i].outcome = "ok")
            => /\ returned[j].outcome = "ok"
               /\ returned[j].uuid = returned[i].uuid
               /\ Cardinality(RowsOfKey(returned[i].key)) = 1

\* C6: every committed transaction has exactly two balance_snapshots rows, one
\* of its sender and one of its receiver, and exactly one transaction_outbox
\* row; no snapshot or outbox row exists without its transaction; a step of a
\* transfer that changes the store at all writes the transaction, both
\* snapshots, the outbox row and both balances together; a call that throws
\* leaves the store as it was.
C6_Cardinality ==
    /\ \A k \in 1..Len(transactions) :
           LET t == transactions[k]
           IN  /\ Cardinality(SnapshotsOf(t.uuid)) = 2
               /\ \E i \in SnapshotsOf(t.uuid) : balance_snapshots[i].user_id = t.sender_id
               /\ \E i \in SnapshotsOf(t.uuid) : balance_snapshots[i].user_id = t.receiver_id
               /\ Cardinality(OutboxOf(t.uuid)) = 1
    /\ Len(balance_snapshots) = 2 * Len(transactions)
    /\ Len(transaction_outbox) = Len(transactions)

C6_AtomicStep ==
    /\ (storeVars' # storeVars /\ DOMAIN users' = DOMAIN users)
          => /\ Len(transactions') = Len(transactions) + 1
             /\ Len(balance_snapshots') = Len(balance_snapshots) + 2
             /\ Len(transaction_outbox') = Len(transaction_outbox) + 1
             /\ LET t == transactions'[Len(transactions')]
                IN  /\ users'[t.sender_id].balance
                           = users[t.sender_id].balance - (t.amount + t.commission)
                    /\ users'[t.receiver_id].balance
                           = users[t.receiver_id].balance + t.amount
    /\ (/\ Len(returned') = Len(returned) + 1
        /\ returned'[Len(returned')].outcome # "ok")
          => UNCHANGED storeVars

C6_AllOrNothing == [](C6_Cardinality) /\ [][C6_AtomicStep]_vars

\* a transfer committed, and an attempt that had already written both balances
\* was rolled back
C6_Witness ==
    /\ Len(transactions) = 1
    /\ \E i \in 1..Len(returned) : returned[i].outcome \in {"duplicate_key", "deadlock"}

\* C7: for every committed transfer the sender's snapshot is the sender's
\* balance just before the commit minus (amount + commission), and the
\* receiver's snapshot is the receiver's balance just before the commit plus
\* amount.
C7_SnapshotBalances ==
    /\ Len(pre_balances) = Len(transactions)
    /\ \A k \in 1..Len(transactions) :
           LET t == transactions[k]
               b == pre_balances[k]
           IN  /\ b.uuid = t.uuid
               /\ \A i \in SnapshotsOf(t.uuid) :
                      /\ balance_snapshots[i].user_id = t.sender_id
                            => balance_snapshots[i].balance
                                   = b.sender - (t.amount + t.commission)
                      /\ balance_snapshots[i].user_id = t.receiver_id
                            => balance_snapshots[i].balance = b.receiver + t.amount

\* two calls that ran concurrently both committed a transfer between the same users
C7_Witness ==
    \E i, j \in 1..Len(returned) :
        /\ i < j
        /\ returned[j].after < i
        /\ returned[i].outcome = "ok" /\ returned[j].outcome = "ok"
        /\ returned[i].uuid # returned[j].uuid
        /\ Len(balance_snapshots) = 4

\* C8 (as claimed): for every amount accepted by transfer the commission is
\* ceil(amount * 3 / 200) in exact integer arithmetic.
C8_CommissionLaw ==
    calcResult.outcome = "ok"
        => calcResult.commission = ExactCommissionBig(calcAmount)

\* C9 (as claimed): when the sender's balance is below
\* amount + ceil(amount * 3 / 200) the transfer fails with the
\* insufficient-balance error and debits nothing.
C9_InsufficientRejected ==
    (/\ calcResult.outcome # "none"
     /\ BLess(calcBalance, BAdd(calcAmount, ExactCommissionBig(calcAmount))))
        => /\ calcResult.outcome = "insufficient_balance"
           /\ calcResult.sender_balance = calcBalance

\* C10 (as claimed): the transfer succeeds exactly when the sender's balance is
\* at least amount + ceil(amount * 3 / 200), and a balance equal to that sum
\* is left at 0.
C10_SufficientIff ==
    calcResult.outcome # "none"
        => /\ (calcResult.outcome = "ok")
                  <=> ~BLess(calcBalance, BAdd(calcAmount, ExactCommissionBig(calcAmount)))
           /\ (calcBalance = BAdd(calcAmount, ExactCommissionBig(calcAmount)))
                  => calcResult.sender_balance = <<>>

LastReturned == returned'[Len(returned')]

CallReturns == Len(returned') = Len(returned) + 1

\* C11: a call with sender_id = receiver_id fails with the self-transfer error
\* and a call with amount <= 0 fails with the invalid-amount error; both are
\* decided before a store transaction is opened: no such call ever runs an
\* attempt, and the step that rejects it takes no lock and writes no row.
C11_Outcome ==
    \A i \in 1..Len(returned) :
        /\ returned[i].sender_id = returned[i].receiver_id
              => returned[i].outcome = "self_transfer"
        /\ (returned[i].sender_id # returned[i].receiver_id /\ returned[i].amount <= 0)
              => returned[i].outcome = "invalid_amount"

C11_NoAttempt ==
    \A p \in Procs :
        proc[p].pc # "idle"
            => (proc[p].sender_id # proc[p].receiver_id /\ proc[p].amount > 0)

C11_RejectStep ==
    (CallReturns /\ LastReturned.outcome \in {"self_transfer", "invalid_amount"})
        => UNCHANGED <<storeVars, locks, jobs, proc>>

C11_ValidationFirst ==
    [](C11_Outcome /\ C11_NoAttempt) /\ [][C11_RejectStep]_vars

\* a self-transfer and a non-positive amount were both rejected
C11_Witness ==
    /\ \E i \in 1..Len(returned) : returned[i].outcome = "self_transfer"
    /\ \E i \in 1..Len(returned) : returned[i].outcome = "invalid_amount"
    /\ transactions = <<>>

\* C12 (as claimed): a call with an empty idempotency key is rejected with the
\* invalid-idempotency-key error before a store transaction is opened, and
\* writes nothing.
C12_EmptyKeyRejected ==
    /\ \A i \in 1..Len(returned) :
           returned[i].key = "" => returned[i].outcome = "invalid_idempotency_key"
    /\ \A p \in Procs : proc[p].pc # "idle" => proc[p].key # ""
    /\ \A k \in 1..Len(transactions) : transactions[k].idempotency_key # ""

\* C13: a call runs at most 3 attempts; an attempt that fails with a
\* deadlock-class store error is rolled back (its writes dropped, its locks
\* released, the store untouched) and, while attempts remain, restarted from
\* the lookup after sleeping 100 ms times the attempt number; a deadlock is
\* surfaced only by the 3rd attempt; every other error is rolled back and
\* surfaced by the step that raises it, and never leads to a restart.
C13_AttemptBound ==
    \A p \in Procs :
        /\ proc[p].attempt_count <= 3
        /\ Len(proc[p].slept) <= 2
        /\ \A k \in 1..Len(proc[p].slept) : proc[p].slept[k] = 100000 * k

C13_Step ==
    \A p \in Procs :
        /\ (proc[p].pc \notin {"idle", "begin"} /\ proc'[p].pc = "begin")
              => /\ proc[p].pc \in {"lock", "insert"}
                 /\ proc'[p].last_exception = "deadlock"
                 /\ proc[p].attempt_count < 3
                 /\ proc'[p].attempt_count = proc[p].attempt_count
                 /\ proc'[p].slept
                        = Append(proc[p].slept, 100000 * proc[p].attempt_count)
                 /\ proc'[p].w_users = <<>> /\ proc'[p].w_txn = <<>>
                 /\ proc'[p].w_snaps = <<>> /\ proc'[p].w_outbox = <<>>
                 /\ proc'[p].w_jobs = <<>>
                 /\ \A u \in DOMAIN locks : locks'[u] # p
                 /\ UNCHANGED <<storeVars, jobs, returned>>
        /\ (proc[p].pc # "idle" /\ proc'[p].pc = "idle" /\ LastReturned.outcome # "ok")
              => /\ LastReturned.outcome = "deadlock" => proc[p].attempt_count = 3
                 /\ \A u \in DOMAIN locks : locks'[u] # p
                 /\ UNCHANGED <<storeVars, jobs>>

C13_RetryLoop == [](C13_AttemptBound) /\ [][C13_Step]_vars

\* a call is in its 3rd attempt after two deadlocks (slept 100 ms, then 200 ms)
\* and another call was refused by the unique index in its first attempt
C13_Witness ==
    /\ \E p \in Procs :
           /\ proc[p].attempt_count = 3
           /\ proc[p].slept = <<100000, 200000>>
    /\ \E i \in 1..Len(returned) : returned[i].outcome \in {"duplicate_key", "insufficient_balance"}

\* C14 (as claimed): when the 3rd attempt of a call fails with a deadlock-class
\* error, the call surfaces the dedicated lock-contention error, not the raw
\* store error, and no write of the transfer remains.
C14_Step ==
    \A p \in Procs :
        (/\ proc[p].attempt_count = 3
         /\ proc[p].pc \in {"lock", "insert"}
         /\ proc'[p].pc = "idle"
         /\ LastReturned.outcome # "duplicate_key")
            => /\ LastReturned.outcome = "lock_contention"
               /\ UNCHANGED storeVars

C14_LockContentionError == [][C14_Step]_vars

\* C15 (as claimed): when the insert of the transaction row hits the unique
\* index on idempotency_key and attempts remain, the attempt is rolled back and
\* the call is re-run, so the refusal never reaches the caller.
C15_Step ==
    \A p \in Procs :
        (/\ proc[p].pc = "insert"
         /\ UniqueViolation(proc[p].key)
         /\ proc[p].attempt_count < 3
         /\ proc'[p] # proc[p])
            => /\ proc'[p].pc = "begin"
               /\ UNCHANGED returned

C15_UniqueViolationRetried == [][C15_Step]_vars

\* the calls made so far go in opposite directions: no two of them have the
\* same sender (PairInputs has one input for 1 -> 2, with key k1, and one for
\* 2 -> 1, with key k2)
C16_OppositeOnly ==
    /\ \A p, q \in Procs :
           (p # q /\ proc[p].pc # "idle" /\ proc[q].pc # "idle")
               => proc[p].sender_id # proc[q].sender_id
    /\ \A i, j \in 1..Len(returned) :
           i # j => returned[i].sender_id # returned[j].sender_id
    /\ \A p \in Procs, i \in 1..Len(returned) :
           proc[p].pc # "idle" => proc[p].sender_id # returned[i].sender_id

\* C16 (as claimed): while transfers 1 -> 2 and 2 -> 1 with distinct keys run
\* concurrently, no store transaction ever waits in a cycle, so the store
\* reports no deadlock: no attempt is retried and no call ends with a deadlock
\* error.
C16_NoWaitCycle ==
    C16_OppositeOnly =>
        /\ \A p \in Procs : ~InWaitCycle(p)
        /\ \A p \in Procs : proc[p].attempt_count <= 1 /\ proc[p].last_exception = ""
        /\ \A i \in 1..Len(returned) : returned[i].outcome # "deadlock"

\* C18: a job is put on the queue only by a call whose store transaction has
\* committed, and then exactly one, for the outbox row of that transfer; a step
\* that rolls an attempt back, retries it, rejects the call or answers it from
\* an existing row leaves the queue as it is.  Hence every committed outbox row
\* has exactly one job: on the queue, or held by the call that is about to
\* dispatch it.
C18_JobsOfCommits ==
    /\ Len(transaction_outbox) = Len(transactions)
    /\ \A n \in 1..Len(jobs) :
           \E k \in 1..Len(transaction_outbox) : transaction_outbox[k].id = jobs[n]
    /\ \A k \in 1..Len(transaction_outbox) :
           Cardinality({n \in 1..Len(jobs) : jobs[n] = transaction_outbox[k].id})
               + Cardinality({p \in Procs :
                                 /\ proc[p].pc = "dispatch"
                                 /\ proc[p].w_jobs = <<transaction_outbox[k].id>>})
                   = 1

C18_Step ==
    (jobs' # jobs)
        => \E p \in Procs :
               /\ proc[p].pc = "dispatch"
               /\ \E k \in 1..Len(transaction_outbox) :
                      /\ transaction_outbox[k].transaction_uuid = proc[p].transaction
                      /\ jobs' = Append(jobs, transaction_outbox[k].id)
               /\ returned' = Append(returned,
                                     ReturnRecord(proc[p], "ok", proc[p].transaction))

C18_DispatchAfterCommit == [](C18_JobsOfCommits) /\ [][C18_Step]_vars

\* one transfer committed with its job dispatched, and another call was rolled
\* back or turned down inside its store transaction
C18_Witness ==
    /\ Len(jobs) = 1
    /\ Len(returned) = 2
    /\ \E i \in 1..Len(returned) : returned[i].outcome \notin {"ok", "self_transfer", "invalid_amount"}
    /\ \E i \in 1..Len(returned) : returned[i].outcome = "ok"

(***************************************************************************)
(* Properties of the ledger and of the outbox worker.                      *)
(***************************************************************************)
OutboxIds == {transaction_outbox[k].id : k \in 1..Len(transaction_outbox)}

OutboxStatus(id) ==
    {transaction_outbox[k].status :
        k \in {j \in 1..Len(transaction_outbox) : transaction_outbox[j].id = id}}

\* C17: no step of the transfer engine (as called by the transfer API) or of
\* the outbox worker changes or removes a transactions row once it is
\* inserted, and every row a step inserts has status completed.
C17_Step ==
    /\ Len(transactions') >= Len(transactions)
    /\ \A k \in 1..Len(transactions) : transactions'[k] = transactions[k]
    /\ \A k \in (Len(transactions) + 1)..Len(transactions') :
           transactions'[k].status = "completed"

C17_AppendOnly == [][C17_Step]_vars

\* two transfers are in the ledger; the worker delivered the outbox entry of
\* one and gave up on the other after all tries
C17_Witness ==
    /\ Len(transactions) = 2
    /\ \E id \in OutboxIds : OutboxStatus(id) = {"delivered"}
    /\ \E id \in OutboxIds : OutboxStatus(id) = {"failed"}

\* C19 (as claimed): every outbox entry of a committed transfer eventually has
\* status delivered or failed, also when its job never reached the queue.
C19_EventuallySettled ==
    \A id \in 1..MaxCalls :
        [](id \in OutboxIds => <>(OutboxStatus(id) \subseteq {"delivered", "failed"}
                                     /\ OutboxStatus(id) # {}))

\* C20 (as claimed): an outbox entry has status delivered only if a
\* money.received event of its transaction_uuid was published on the push
\* sink before.
C20_DeliveredWasEmitted ==
    \A k \in 1..Len(transaction_outbox) :
        transaction_outbox[k].status = "delivered"
            => \E n \in 1..Len(pushed) :
                   /\ pushed[n].name = "money.received"
                   /\ pushed[n].transaction_uuid = transaction_outbox[k].transaction_uuid

\* the events a worker sent, queued for broadcast, or published
AllEvents ==
    emitted \cup {broadcasts[k] : k \in 1..Len(broadcasts)}
            \cup {pushed[k] : k \in 1..Len(pushed)}

\* C21: every money.received event sent for an outbox entry is on the private
\* channel user.<receiver_id> of its transfer (private-user.<receiver_id> on
\* the wire), carries the transaction's amount, and as new_balance the
\* receiver's balance snapshot of that transaction.
C21_EventOfTransfer ==
    \A e \in AllEvents :
        \E k \in 1..Len(transactions) :
            LET t == transactions[k]
            IN  /\ t.uuid = e.transaction_uuid
                /\ e.name = "money.received"
                /\ e.channel = <<"private-user", t.receiver_id>>
                /\ e.amount = t.amount
                /\ \E i \in SnapshotsOf(t.uuid) :
                       /\ balance_snapshots[i].user_id = t.receiver_id
                       /\ balance_snapshots[i].balance = e.new_balance

\* the events of two transfers to the same receiver were published, with
\* different balances
C21_Witness ==
    \E i, j \in 1..Len(pushed) :
        /\ pushed[i].transaction_uuid # pushed[j].transaction_uuid
        /\ pushed[i].new_balance # pushed[j].new_balance
        /\ pushed[i].channel = pushed[j].channel

\* worker w sends the event of its entry in this step
Sends(w) == worker[w].pc = "send" /\ worker'[w].pc = "update"

Running(w, id) == worker[w].pc \in {"send", "update"} /\ worker[w].outbox_id = id

\* C22 (as claimed): once an outbox entry has status delivered or failed, no
\* step of a worker (handle, a retry of the job, failed()) changes its status
\* or sends a further event for it.
C22_Step ==
    \A k \in 1..Len(transaction_outbox) :
        transaction_outbox[k].status \in {"delivered", "failed"}
            => /\ transaction_outbox'[k].status = transaction_outbox[k].status
               /\ \A w \in Workers :
                      ~(Sends(w) /\ worker[w].outbox_id = transaction_outbox[k].id)

C22_Terminal == [][C22_Step]_vars

\* C23 (as claimed): of two worker executions that handle the same outbox
\* entry concurrently at most one gets past the load of the row and sends the
\* event; the other finds the entry claimed and does nothing.
C23_OneExecutionSends ==
    \A w, v \in Workers :
        (/\ w # v
         /\ worker[w].outbox_id # 0
         /\ worker[w].outbox_id = worker[v].outbox_id)
            => ~(worker[w].pc = "update" /\ worker[v].pc = "update")

\* the job of outbox row id was pushed onto the queue
Dispatched(id) == id \in QueuedJobs \/ id \in DOMAIN job_attempts \/ id \in failed_jobs

\* the payload can be read as an array and lacks a required field
C24_LacksField(payload) ==
    /\ is_string(payload) => json_decode(payload) # <<>>
    /\ ~(RequiredFields \subseteq DOMAIN PayloadArray(payload))

C24_State ==
    \A k \in 1..Len(transaction_outbox) :
        LET row == transaction_outbox[k]
        IN  (C24_LacksField(row.payload) /\ Dispatched(row.id))
                => /\ row.attempts = 0
                   /\ \A w \in Workers : ~Running(w, row.id)
                   /\ \A e \in AllEvents : e.transaction_uuid # row.transaction_uuid
                   /\ row.status \in {"pending", "failed"}
                   /\ row.status = "failed" => row.error \notin {"null", ""}
                   /\ (/\ JobAttempts(row.id) >= 1
                       /\ \A w \in Workers : worker[w].outbox_id # row.id)
                          => row.status = "failed"

C24_Step ==
    \A k \in 1..Len(transaction_outbox), w \in Workers :
        LET row == transaction_outbox[k]
        IN  (/\ C24_LacksField(row.payload)
             /\ worker[w].outbox_id = row.id
             /\ worker[w].pc \in {"handle", "mark"}
             /\ worker'[w].pc # worker[w].pc)
                => /\ worker'[w].pc = IF worker[w].pc = "handle" THEN "mark" ELSE "idle"
                   /\ jobs' = jobs
                   /\ failed_jobs' = failed_jobs
                   /\ worker'[w].pc = "idle"
                          => /\ transaction_outbox'[k].status = "failed"
                             /\ transaction_outbox'[k].error \notin {"null", ""}
                             /\ transaction_outbox'[k].attempts = row.attempts

\* C24: for an outbox entry whose payload lacks a required field, every
\* execution of handle() goes from the load of the row to markAsFailed and
\* ends there: the entry then has status failed and a non-empty error, the
\* worker has put the job neither back on the queue nor among the failed
\* jobs, attempts is as it was.  At all times attempts of such an entry is 0,
\* no event was sent for it, no execution is past the validation, its status
\* is pending or failed, and it is failed once its job was handed out and no
\* worker holds it any more.
C24_InvalidPayloadFails == []C24_State /\ [][C24_Step]_vars

\* the entry whose payload has no receiver_balance is failed after the one
\* execution of its job, and the job is gone
C24_Witness ==
    \E k \in 1..Len(transaction_outbox) :
        /\ "receiver_balance" \notin DOMAIN transaction_outbox[k].payload
        /\ "sender_balance" \in DOMAIN transaction_outbox[k].payload
        /\ transaction_outbox[k].status = "failed"
        /\ JobAttempts(transaction_outbox[k].id) = 1
        /\ \A w \in Workers : worker[w].pc = "idle"
        /\ jobs = <<>>
        /\ failed_jobs = {}

\* the execution of worker w ends in this step with handle() throwing
Throws(w) == worker[w].pc = "send" /\ worker'[w].pc = "thrown"

\* C25 (as claimed): a delivery attempt that fails transiently adds exactly 1
\* to attempts of its entry, sets last_attempted_at to the current time and
\* error to the message of the failure, and leaves status pending while the
\* cap of attempts is not reached.
C25_Step ==
    \A w \in Workers :
        Throws(w) =>
            \A k \in 1..Len(transaction_outbox) :
                transaction_outbox[k].id = worker[w].outbox_id
                    => /\ transaction_outbox'[k].attempts
                              = transaction_outbox[k].attempts + 1
                       /\ transaction_outbox'[k].last_attempted_at = "now"
                       /\ transaction_outbox'[k].error \notin {"null", ""}
                       /\ transaction_outbox[k].attempts + 1 < Tries
                              => transaction_outbox'[k].status = "pending"

C25_TransientFailureRecorded == [][C25_Step]_vars

\* C26 (as claimed): attempts of an outbox entry never exceeds 5; an entry
\* whose 5th delivery attempt failed has status failed, attempts = 5 and an
\* error recorded, and is never attempted again: its job is not queued and no
\* worker runs it.
C26_AttemptCap ==
    \A k \in 1..Len(transaction_outbox) :
        LET row == transaction_outbox[k]
        IN  /\ row.attempts <= Tries
            /\ row.attempts = Tries
                   => /\ row.status = "failed"
                      /\ row.error \notin {"null", ""}
                      /\ row.id \notin QueuedJobs
                      /\ \A w \in Workers : ~Running(w, row.id)

\* C27 (as claimed): every entry the worker marked delivered has delivered_at
\* and last_attempted_at set, and the attempts it had before.
C27_DeliveredAtSet ==
    \A k \in 1..Len(transaction_outbox) :
        transaction_outbox[k].status = "delivered"
            => /\ transaction_outbox[k].delivered_at # "null"
               /\ transaction_outbox[k].last_attempted_at # "null"

engineVars == <<users, transactions, balance_snapshots, locks, proc, returned>>

OutboxIdentity ==
    [k \in 1..Len(transaction_outbox) |->
        [id |-> transaction_outbox[k].id,
         transaction_uuid |-> transaction_outbox[k].transaction_uuid,
         payload |-> transaction_outbox[k].payload]]

\* C28: what a transfer returns and writes does not depend on the push sink:
\* no step of the sink or of a worker (a failed send included) changes a
\* balance, the ledger, a snapshot, a running or returned call, or the
\* identity and payload of an outbox entry; a call at its commit can commit
\* whether the sink is up or down, and returns the transaction it committed.
C28_Frame ==
    (sink' # sink \/ worker' # worker \/ broadcasts' # broadcasts \/ pushed' # pushed)
        => /\ UNCHANGED engineVars
           /\ OutboxIdentity' = OutboxIdentity

C28_CommitNotHeld ==
    /\ \A p \in Procs : proc[p].pc = "commit" => ENABLED Commit(p)
    /\ \A i \in 1..Len(returned) :
           returned[i].outcome = "ok"
               => \E k \in 1..Len(transactions) :
                      /\ transactions[k].uuid = returned[i].uuid
                      /\ Cardinality(SnapshotsOf(returned[i].uuid)) = 2
                      /\ Cardinality(OutboxOf(returned[i].uuid)) = 1

C28_SinkIndependent == [](C28_CommitNotHeld) /\ [][C28_Frame]_vars

\* the transfer returned its transaction while the sink was down all the time,
\* and its entry was given up after the failed sends
C28_Witness ==
    /\ \E i \in 1..Len(returned) : returned[i].outcome = "ok"
    /\ Len(transactions) = 1
    /\ OutboxStatus(1) = {"failed"}
    /\ emitted = {}
    /\ sink = "down"

\* C29 (as claimed): when the push sink comes back and stays up, the entry of
\* every committed transfer eventually is delivered, with its event sent.
C29_DeliveredAfterRecovery ==
    \A id \in 1..MaxCalls :
        (<>[](sink = "up"))
            => [](id \in OutboxIds => <>(OutboxStatus(id) = {"delivered"}))

ResponseBody(r) ==
    [uuid |-> r.uuid, amount |-> r.amount, commission |-> r.commission,
     total_debited |-> r.total_debited, created_at |-> r.created_at,
     sender_balance |-> r.sender_balance, receiver_balance |-> r.receiver_balance]

\* C30 (as claimed): a POST /api/transactions repeated with the same
\* Idempotency-Key is answered with the uuid, amount, commission,
\* total_debited, created_at, sender_balance and receiver_balance of the first
\* response, whatever transfers committed in between, and one ledger row
\* exists for the key.
C30_ReplaySameResponse ==
    \A i, j \in 1..Len(responses) :
        (/\ i < j
         /\ responses[i].request = responses[j].request
         /\ responses[i].status = 201)
            => /\ responses[j].status = 201
               /\ ResponseBody(responses[j]) = ResponseBody(responses[i])
               /\ Cardinality(RowsOfKey(responses[i].request[4])) = 1

IsShow(r) == "op" \in DOMAIN r /\ r.op = "show"

IsIndex(r) == "op" \in DOMAIN r /\ r.op = "index"

IsParty(t, user_id) == t.sender_id = user_id \/ t.receiver_id = user_id

\* C31: GET /api/transactions/{uuid} answers a caller who is neither sender
\* nor receiver of the transaction it found with status 404 and with the
\* status and body it answers when it finds no transaction of the uuid.
C31_NoExistenceLeak ==
    \A i, j \in 1..Len(responses) :
        (/\ IsShow(responses[i]) /\ IsShow(responses[j])
         /\ responses[i].found # <<>>
         /\ ~IsParty(responses[i].found[1], responses[i].user_id)
         /\ responses[j].found = <<>>)
            => /\ responses[i].status = 404
               /\ responses[i].status = responses[j].status
               /\ responses[i].body = responses[j].body

\* user 3, party to no transfer, asked for a transaction that existed and
\* for a uuid that had none
C31_Witness ==
    \E i, j \in 1..Len(responses) :
        /\ IsShow(responses[i]) /\ IsShow(responses[j])
        /\ responses[i].user_id = responses[j].user_id
        /\ responses[i].found # <<>>
        /\ ~IsParty(responses[i].found[1], responses[i].user_id)
        /\ responses[j].found = <<>>

\* C32 (as claimed): GET /api/transactions/{uuid} by the sender or the
\* receiver of an existing transaction is answered 200 with the uuid, amount,
\* commission, total_debited = amount + commission and direction 'out' for
\* the sender, 'in' for the receiver.
C32_PartySeesDetail ==
    \A i \in 1..Len(responses) :
        (/\ IsShow(responses[i])
         /\ findByUuid(responses[i].uuid) # <<>>
         /\ IsParty(findByUuid(responses[i].uuid)[1], responses[i].user_id))
            => LET t == findByUuid(responses[i].uuid)[1]
                   r == responses[i]
               IN  /\ r.status = 200
                   /\ r.body.uuid = t.uuid
                   /\ r.body.amount = t.amount
                   /\ r.body.commission = t.commission
                   /\ r.body.total_debited = t.amount + t.commission
                   /\ r.body.direction =
                          (IF t.sender_id = r.user_id THEN "out" ELSE "in")

\* C33 (as claimed): GET /api/transactions with direction=sent returns only
\* transactions the caller sent, with direction=received only those the
\* caller received, with direction=all or no direction both; the rows are
\* ordered by created_at descending and all have the caller as a party.
C33_DirectionFilter ==
    \A i \in 1..Len(responses) :
        IsIndex(responses[i])
            => LET r == responses[i]
               IN  /\ \A k \in DOMAIN r.data :
                          /\ IsParty(r.data[k], r.user_id)
                          /\ r.direction = "sent" => r.data[k].sender_id = r.user_id
                          /\ r.direction = "received"
                                 => r.data[k].receiver_id = r.user_id
                   /\ \A k, l \in DOMAIN r.data :
                          k < l => r.data[k].created_at >= r.data[l].created_at

\* the outbox entry of ledger row k and the event made of it
EventOfRow(k) ==
    MoneyReceived(SelectSeq(transaction_outbox,
                            LAMBDA o : o.transaction_uuid = transactions[k].uuid)[1].payload)

\* C34 (as claimed): with one worker, when the event of a committed transfer
\* is emitted, the events of all transfers to the same receiver that
\* committed earlier have been emitted, also after failed attempts.
C34_Step ==
    \A w \in Workers :
        Sends(w) =>
            \A k, l \in DOMAIN transactions :
                (/\ k < l
                 /\ transactions[l].uuid = worker[w].outbox.transaction_uuid
                 /\ transactions[k].receiver_id = transactions[l].receiver_id)
                    => EventOfRow(k) \in emitted

C34_CommitOrder == [][C34_Step]_vars

\* the snapshots of user u, as indices into balance_snapshots (creation order)
SnapshotsOfUser(u) == {i \in DOMAIN balance_snapshots : balance_snapshots[i].user_id = u}

TransfersOfUser(u) ==
    {k \in DOMAIN transactions :
        transactions[k].sender_id = u \/ transactions[k].receiver_id = u}

Max(S) == CHOOSE n \in S : \A m \in S : m <= n

\* C35: every user has one balance snapshot per committed transfer the user
\* took part in, each of another transfer, and the most recently created
\* snapshot of a user who took part in a transfer is the user's current
\* balance.
C35_LatestSnapshotIsBalance ==
    \A u \in DOMAIN users :
        /\ Cardinality(SnapshotsOfUser(u)) = Cardinality(TransfersOfUser(u))
        /\ \A k \in TransfersOfUser(u) :
               Cardinality({i \in SnapshotsOfUser(u) :
                   balance_snapshots[i].transaction_uuid = transactions[k].uuid}) = 1
        /\ TransfersOfUser(u) # {}
              => balance_snapshots[Max(SnapshotsOfUser(u))].balance = users[u].balance

\* two transfers committed and both users' balances moved twice
C35_Witness ==
    /\ Len(transactions) = 2
    /\ \A u \in ExistingUsers :
           /\ Cardinality(SnapshotsOfUser(u)) = 2
           /\ users[u].balance # users[u].initial_balance
           /\ \E i \in SnapshotsOfUser(u) : balance_snapshots[i].balance # users[u].balance

\* C36 (as claimed): the transaction a successful call transfer(sender_id,
\* receiver_id, amount, key) returns has that sender_id, receiver_id and
\* amount, also when the key was used by an earlier transfer.
C36_ReturnedMatchesCall ==
    \A i \in 1..Len(returned) :
        returned[i].outcome = "ok"
            => \A k \in DOMAIN transactions :
                   transactions[k].uuid = returned[i].uuid
                       => /\ transactions[k].sender_id = returned[i].sender_id
                          /\ transactions[k].receiver_id = returned[i].receiver_id
                          /\ transactions[k].amount = returned[i].amount

\* the errors that reject a transfer inside its store transaction
RejectedOutcomes == {"insufficient_balance", "not_found", "deadlock"}

RECURSIVE NetOfRows(_, _)
\* what the ledger rows say user u received minus what they say u was debited
NetOfRows(rows, u) ==
    IF rows = <<>> THEN 0
    ELSE (IF Head(rows).receiver_id = u THEN Head(rows).amount ELSE 0)
             - (IF Head(rows).sender_id = u
                THEN Head(rows).amount + Head(rows).commission ELSE 0)
             + NetOfRows(Tail(rows), u)

\* a call of key K that threw one of the rejections returned, and a call
\* started after it with the same key executed: it returned a transaction,
\* and no other call of the key did or is about to (a call that finds the row
\* another call of the key committed is a replay)
RejectedThenExecuted(i, j) ==
    /\ i < j
    /\ returned[i].outcome \in RejectedOutcomes
    /\ returned[j].key = returned[i].key
    /\ returned[j].after >= i
    /\ returned[j].outcome = "ok"
    /\ \A m \in 1..Len(returned) :
           (m # j /\ returned[m].key = returned[j].key) => returned[m].outcome # "ok"
    /\ \A p \in Procs :
           proc[p].key = returned[j].key => proc[p].pc # "dispatch"

C37_KeyFree ==
    /\ \A i \in 1..Len(returned) :
           (/\ returned[i].outcome \in RejectedOutcomes
            /\ \A j \in 1..Len(returned) :
                   returned[j].key = returned[i].key => returned[j].outcome # "ok"
            /\ \A p \in Procs : proc[p].key # returned[i].key)
               => RowsOfKey(returned[i].key) = {}
    /\ \A i, j \in 1..Len(returned) :
           RejectedThenExecuted(i, j)
               => /\ Cardinality(RowsOfKey(returned[j].key)) = 1
                  /\ \A k \in RowsOfKey(returned[j].key) :
                         /\ transactions[k].uuid = returned[j].uuid
                         /\ transactions[k].sender_id = returned[j].sender_id
                         /\ transactions[k].amount = returned[j].amount
                  /\ users[returned[j].sender_id].balance
                         = users[returned[j].sender_id].initial_balance
                               + NetOfRows(transactions, returned[j].sender_id)

C37_Step ==
    (CallReturns /\ LastReturned.outcome \in RejectedOutcomes)
        => /\ UNCHANGED storeVars
           /\ RowsOfKey(LastReturned.key)
                  = {k \in DOMAIN transactions' :
                        transactions'[k].idempotency_key = LastReturned.key}

\* C37: a transfer rejected for insufficient balance, a missing user or
\* exhausted deadlock retries writes nothing and leaves no row of its key; a
\* later transfer with the same key that executes writes the one row of the
\* key, its own, and the sender is debited once for it.
C37_RejectedKeepsKeyFree == [](C37_KeyFree) /\ [][C37_Step]_vars

\* a call whose three attempts ended in a deadlock returned the error, and a
\* call of its key started after that executed
C37_Witness ==
    \E i, j \in 1..Len(returned) :
        /\ RejectedThenExecuted(i, j)
        /\ returned[i].outcome = "deadlock"
        /\ Cardinality(RowsOfKey(returned[j].key)) = 1
        /\ users[returned[j].sender_id].balance
               < users[returned[j].sender_id].initial_balance

StatsAnswered ==
    /\ Len(responses') = Len(responses) + 1
    /\ "op" \in DOMAIN responses'[Len(responses')]
    /\ responses'[Len(responses')].op = "stats"

C38_Step ==
    (StatsAnswered /\ stats.ledger = Len(transactions))
        => LET r == responses'[Len(responses')]
               u == r.user_id
           IN  /\ r.data.net_balance_change = r.data.total_received - r.data.total_sent
               /\ r.data.net_balance_change
                      = users[u].balance - users[u].initial_balance
               /\ r.data.total_transactions
                      = Cardinality({k \in DOMAIN transactions :
                                        transactions[k].sender_id = u})
                          + Cardinality({k \in DOMAIN transactions :
                                            transactions[k].receiver_id = u})

\* C38: the statistics answered by a request during which no transfer
\* committed (as in every quiescent state) reconcile with the balance:
\* net_balance_change = total_received - total_sent (commission included) is
\* the user's balance - initial_balance, and total_transactions is the number
\* of transfers sent plus received.
C38_StatsReconcile == [][C38_Step]_vars

\* statistics answered after two committed transfers
C38_Witness ==
    \E i \in 1..Len(responses) :
        /\ "op" \in DOMAIN responses[i] /\ responses[i].op = "stats"
        /\ responses[i].data.total_transactions = 2
        /\ responses[i].data.net_balance_change # 0
        /\ responses[i].data.net_balance_change
               = users[responses[i].user_id].balance
                     - users[responses[i].user_id].initial_balance

\* the keys store derives for a header-less request of these fields
DerivedKeys(sender_id, receiver_id, amount) ==
    {generateIdempotencyKey(sender_id, receiver_id, amount, toIso8601String(t)) :
        t \in 0..MaxClock}

Derived(c) == c.key \in DerivedKeys(c.sender_id, c.receiver_id, c.amount)

HeaderValues == {in[4] : in \in KeyInputs} \ {NoHeader}

\* C39 (as claimed): without the header the key is derived from sender,
\* receiver, amount and the second of the request: two such requests of the
\* same fields in one second are both answered as success with one uuid and
\* leave one ledger row, in different seconds they leave two rows; a header
\* that is present is the key.
C39_DerivedKey ==
    /\ \A i, j \in 1..Len(returned) :
           (/\ i # j
            /\ Derived(returned[i]) /\ Derived(returned[j])
            /\ returned[i].sender_id = returned[j].sender_id
            /\ returned[i].receiver_id = returned[j].receiver_id
            /\ returned[i].amount = returned[j].amount
            /\ returned[i].outcome = "ok")
               => IF returned[i].key = returned[j].key
                  THEN /\ returned[j].outcome = "ok"
                       /\ returned[j].uuid = returned[i].uuid
                       /\ Cardinality(RowsOfKey(returned[i].key)) = 1
                  ELSE returned[j].outcome = "ok"
                          => /\ returned[j].uuid # returned[i].uuid
                             /\ Cardinality(RowsOfKey(returned[i].key)) = 1
                             /\ Cardinality(RowsOfKey(returned[j].key)) = 1
    /\ \A i \in 1..Len(returned) :
           Derived(returned[i]) \/ returned[i].key \in HeaderValues
    /\ \A k \in DOMAIN transactions :
           \/ transactions[k].idempotency_key \in HeaderValues
           \/ transactions[k].idempotency_key
                  \in DerivedKeys(transactions[k].sender_id,
                                  transactions[k].receiver_id, transactions[k].amount)

\* the session of a user is open (the user is in the store, the layout is
\* mounted with its listener on the user's channel), every transfer committed
\* to the user has its event among the events handed to the session's
\* connection, no event and no request is on its way, and the last reload of
\* the user was served after the last transfer of the user's own
AllEventsHandled ==
    /\ session.user_id # 0
    /\ session.channel = session.user_id
    /\ session.layout /\ session.to = ""
    /\ session.login = <<>> /\ session.logout = NoLogout
    /\ \A p \in Procs : proc[p].pc = "idle"
    /\ jobs = <<>> /\ broadcasts = <<>>
    /\ \A w \in Workers : worker[w].pc = "idle"
    /\ session.handled = Len(pushed)
    /\ session.missed = 0
    /\ session.pending = <<>>
    /\ \A k \in DOMAIN transactions :
           transactions[k].sender_id = session.user_id => k <= session.seen
    /\ \A k \in DOMAIN transactions :
           transactions[k].receiver_id = session.user_id
               => \E n \in 1..session.handled :
                      /\ pushed[n].transaction_uuid = transactions[k].uuid
                      /\ pushed[n].channel = <<"private-user", session.user_id>>

\* C40 (as claimed): once the session of a receiver has handled all
\* money.received events addressed to the receiver, the balance in its store
\* is the receiver's current balance, in whatever order the two workers
\* published the events and however the receiver's own transfers interleaved.
C40_SessionBalanceCurrent ==
    AllEventsHandled => session.balance = users[session.user_id].balance

====
